---- MODULE Spec2Model ----
(***************************************************************************)
(* Model of the text-replacement content script (src/content.js): the      *)
(* pattern compiler (escapeRegExp, buildRegex, updateRegexes), the node    *)
(* processor (processNode), the traversals (processDocument,               *)
(* processElement) and the handlers that drive them (startup load,         *)
(* MutationObserver callback, chrome.storage.onChanged listener).          *)
(*                                                                         *)
(* A JavaScript string is a sequence of one-character strings.             *)
(***************************************************************************)
EXTENDS Integers, Sequences, FiniteSets, TLC

\* A JavaScript value that may be absent (undefined, null, a missing
\* property or store key) is the empty sequence when absent and <<v>> when
\* it is v.
None == <<>>
Some(v) == <<v>>

\* if (x), !x on such a value that is a boolean when present.
truthy(x) == x = Some(TRUE)

\* A name for "no node" and "no tag".
Null == "null"

-----------------------------------------------------------------------------
(* Characters and strings *)

\* \w of a RegExp: letters, digits and the underscore.
WordChars == {"a", "b", "A", "B", "x", "y", "z", "X", "Y", "Z", "0", "_"}

\* The characters escapeRegExp escapes: the class [.*+?^${}()|[\]\\].
SpecialChars == {".", "*", "+", "?", "^", "$", "{", "}", "(", ")", "|", "[", "]", "\\"}

\* Three characters outside ASCII, each one UTF-16 code unit: the micro
\* sign, the Greek small letter mu and the Greek capital letter mu.
MicroSign == "U+00B5"
GreekMu == "U+03BC"
GreekCapitalMu == "U+039C"

\* String.prototype.toLowerCase on one character. The micro sign is a
\* lowercase letter: it stays.
toLowerChar(c) ==
  CASE c = "A" -> "a" [] c = "B" -> "b"
    [] c = "X" -> "x" [] c = "Y" -> "y" [] c = "Z" -> "z"
    [] c = GreekCapitalMu -> GreekMu
    [] OTHER -> c

\* How a RegExp with the i flag (and without u) compares characters: by
\* their uppercase, String.prototype.toUpperCase on one character. The
\* uppercase of the micro sign is the Greek capital mu. (No character of
\* the model has an uppercase of more than one code unit, or an ASCII
\* uppercase without being ASCII.)
Canonicalize(c) ==
  CASE c = "a" -> "A" [] c = "b" -> "B"
    [] c = "x" -> "X" [] c = "y" -> "Y" [] c = "z" -> "Z"
    [] c = GreekMu -> GreekCapitalMu
    [] c = MicroSign -> GreekCapitalMu
    [] OTHER -> c

toLowerCase(s) == [i \in 1..Len(s) |-> toLowerChar(s[i])]

\* s.includes(t)
Includes(s, t) ==
  \E i \in 1..(Len(s) - Len(t) + 1) : SubSeq(s, i, i + Len(t) - 1) = t

-----------------------------------------------------------------------------
(* Pattern compiler *)

\* The word put into the pattern as it is.
escapeRegExpNothing(string) == string

RECURSIVE escapeRegExp(_)
escapeRegExp(string) ==
  IF string = <<>> THEN <<>>
  ELSE (IF Head(string) \in SpecialChars THEN <<"\\", Head(string)>> ELSE <<Head(string)>>)
       \o escapeRegExp(Tail(string))

\* buildRegex without the word boundaries: the escaped word alone.
wordPatternUnbounded(word) == escapeRegExp(word)

\* The fragment buildRegex makes of one word: \b where the word starts or
\* ends with a word character, the escaped word between.
wordPattern(word) ==
  LET escaped == escapeRegExp(word)
      prefix == IF Len(word) > 0 /\ word[1] \in WordChars THEN <<"\\", "b">> ELSE <<>>
      suffix == IF Len(word) > 0 /\ word[Len(word)] \in WordChars THEN <<"\\", "b">> ELSE <<>>
  IN prefix \o escaped \o suffix

\* Array.prototype.sort with (a, b) => b.length - a.length: descending
\* length, stable (equal lengths keep their order).
RECURSIVE sortByLength(_)
sortByLength(patterns) ==
  IF patterns = <<>> THEN <<>>
  ELSE LET n == Len(patterns)
           last == patterns[n]
           sorted == sortByLength(SubSeq(patterns, 1, n - 1))
           k == Cardinality({i \in 1..Len(sorted) : Len(sorted[i]) >= Len(last)})
       IN SubSeq(sorted, 1, k) \o <<last>> \o SubSeq(sorted, k + 1, Len(sorted))

\* patterns.join('|')
RECURSIVE join(_)
join(patterns) ==
  IF patterns = <<>> THEN <<>>
  ELSE IF Len(patterns) = 1 THEN patterns[1]
  ELSE patterns[1] \o <<"|">> \o join(Tail(patterns))

buildRegex(words, caseSensitive) ==
  IF Len(words) = 0 THEN None
  ELSE LET patterns == [i \in 1..Len(words) |-> wordPattern(words[i])]
       IN Some([source |-> join(sortByLength(patterns)), ignoreCase |-> ~caseSensitive])

\* A rule set (wordMap) is the sequence of its entries in Object.entries
\* order: <<[word |-> w, data |-> [replacement, caseSensitive, enabled]], ...>>.
\* updateRegexes without its filter: every rule counts as enabled.
isActiveAlways(data) == TRUE

\* data.enabled !== false
isActive(data) == data.enabled # Some(FALSE)

wordsOf(entries) == [i \in 1..Len(entries) |-> entries[i].word]

\* An object built by assigning obj[key] = data for the entries in order,
\* the key being the word or, when lower, the lowercased word: a later
\* entry with the same key overwrites an earlier one.
keyOf(word, lower) == IF lower THEN toLowerCase(word) ELSE word

objectOf(entries, lower) ==
  [k \in {keyOf(entries[i].word, lower) : i \in 1..Len(entries)} |->
     LET last == CHOOSE i \in 1..Len(entries) :
                   /\ keyOf(entries[i].word, lower) = k
                   /\ \A j \in (i + 1)..Len(entries) : keyOf(entries[j].word, lower) # k
     IN entries[last].data]

\* The four globals updateRegexes assigns.
updateRegexes(wordMap) ==
  LET isEnabled(entry) == isActive(entry.data)
      isSensitive(entry) == isActive(entry.data) /\ truthy(entry.data.caseSensitive)
      isInsensitive(entry) == isActive(entry.data) /\ ~truthy(entry.data.caseSensitive)
      sensitiveWords == wordsOf(SelectSeq(wordMap, isSensitive))
      insensitiveWords == wordsOf(SelectSeq(wordMap, isInsensitive))
  IN [wordMapCache |-> objectOf(SelectSeq(wordMap, isEnabled), FALSE),
      wordMapCacheLower |-> objectOf(SelectSeq(wordMap, isInsensitive), TRUE),
      sensitiveRegex |-> buildRegex(sensitiveWords, TRUE),
      insensitiveRegex |-> buildRegex(insensitiveWords, FALSE)]

-----------------------------------------------------------------------------
(* The RegExp engine on the sources buildRegex produces *)

\* new RegExp(source): the alternatives of the source, each a sequence of
\* terms. A backslash takes the next character: \b is the word-boundary
\* assertion, any other escaped character is that character. An unescaped |
\* separates alternatives, an unescaped . matches any character.
RECURSIVE parseFrom(_, _, _, _)
parseFrom(source, i, current, alternatives) ==
  IF i > Len(source) THEN Append(alternatives, current)
  ELSE IF source[i] = "\\" /\ i < Len(source) THEN
         parseFrom(source, i + 2,
                   Append(current, IF source[i + 1] = "b" THEN [t |-> "boundary"]
                                   ELSE [t |-> "char", c |-> source[i + 1]]),
                   alternatives)
  ELSE IF source[i] = "|" THEN parseFrom(source, i + 1, <<>>, Append(alternatives, current))
  ELSE IF source[i] = "." THEN parseFrom(source, i + 1, Append(current, [t |-> "any"]), alternatives)
  ELSE parseFrom(source, i + 1, Append(current, [t |-> "char", c |-> source[i]]), alternatives)

parse(source) == parseFrom(source, 1, <<>>, <<>>)

isWordAt(text, i) == i >= 1 /\ i <= Len(text) /\ text[i] \in WordChars

\* The position after a match of the terms from position i of the text, or
\* 0 when there is none.
RECURSIVE matchTerms(_, _, _, _)
matchTerms(terms, text, i, ignoreCase) ==
  IF terms = <<>> THEN i
  ELSE LET term == Head(terms) IN
       IF term.t = "boundary" THEN
         IF isWordAt(text, i - 1) # isWordAt(text, i)
         THEN matchTerms(Tail(terms), text, i, ignoreCase) ELSE 0
       ELSE IF i > Len(text) THEN 0
       ELSE IF term.t = "any" THEN matchTerms(Tail(terms), text, i + 1, ignoreCase)
       ELSE IF text[i] = term.c \/ (ignoreCase /\ Canonicalize(text[i]) = Canonicalize(term.c))
       THEN matchTerms(Tail(terms), text, i + 1, ignoreCase) ELSE 0

\* The match at position i: the first alternative, in source order, that
\* matches there. 0 when no alternative matches.
matchAt(alternatives, text, i, ignoreCase) ==
  LET hits == {a \in 1..Len(alternatives) : matchTerms(alternatives[a], text, i, ignoreCase) # 0}
  IN IF hits = {} THEN 0
     ELSE matchTerms(alternatives[CHOOSE a \in hits : \A b \in hits : a <= b], text, i, ignoreCase)

\* The matches of a global regex in the text, left to right, not
\* overlapping: <<[at |-> start, end |-> position after], ...>>. After an
\* empty match the scan advances by one character.
RECURSIVE matchesFrom(_, _, _, _)
matchesFrom(alternatives, text, i, ignoreCase) ==
  IF i > Len(text) + 1 THEN <<>>
  ELSE LET e == matchAt(alternatives, text, i, ignoreCase) IN
       IF e = 0 THEN matchesFrom(alternatives, text, i + 1, ignoreCase)
       ELSE <<[at |-> i, end |-> e]>>
            \o matchesFrom(alternatives, text, IF e = i THEN i + 1 ELSE e, ignoreCase)

\* A matcher compiled without the g flag: replace stops at the first match.
matchesFirst(regex, text) ==
  LET all == IF regex = None THEN <<>>
             ELSE matchesFrom(parse(regex[1].source), text, 1, regex[1].ignoreCase)
  IN IF all = <<>> THEN <<>> ELSE <<Head(all)>>

\* regex is a compiled matcher or None; no matcher, no match.
matches(regex, text) ==
  IF regex = None THEN <<>>
  ELSE matchesFrom(parse(regex[1].source), text, 1, regex[1].ignoreCase)

-----------------------------------------------------------------------------
(* Match resolver and node processor *)

\* replaceCallback without its clock check: exact lookup, lowercase lookup,
\* the match itself.
resolve(wordMapCache, wordMapCacheLower, match) ==
  IF match \in DOMAIN wordMapCache THEN wordMapCache[match].replacement
  ELSE IF toLowerCase(match) \in DOMAIN wordMapCacheLower
       THEN wordMapCacheLower[toLowerCase(match)].replacement
  ELSE match

\* text.replace(regex, replaceCallback) for the matches found: every
\* matched span is replaced by what the callback returns for it.
RECURSIVE replaceSpans(_, _, _, _, _)
replaceSpans(text, spans, from, cache, cacheLower) ==
  IF spans = <<>> THEN SubSeq(text, from, Len(text))
  ELSE LET m == Head(spans) IN
       SubSeq(text, from, m.at - 1) \o resolve(cache, cacheLower, SubSeq(text, m.at, m.end - 1))
       \o replaceSpans(text, Tail(spans), m.end, cache, cacheLower)


-----------------------------------------------------------------------------
(* The document *)

\* The nodes a page of the model is made of. Every node has one place in
\* the page's markup (homeOf): the page appends it there or removes it.
\*   body > div > { t1, ns > { t2, span > t3 }, ed > t4 }
TextNodes == {"t1", "t2", "t3", "t4"}
ElementNodes == {"body", "div", "ns", "span", "ed"}
Nodes == TextNodes \cup ElementNodes

homeOf(n) ==
  CASE n = "div" -> "body"
    [] n \in {"t1", "ns", "ed"} -> "div"
    [] n \in {"t2", "span"} -> "ns"
    [] n = "t3" -> "span"
    [] n = "t4" -> "ed"
    [] OTHER -> Null

tagName(n) ==
  CASE n = "body" -> "BODY"
    [] n = "div" -> "DIV"
    [] n = "ns" -> "NOSCRIPT"
    [] n = "span" -> "SPAN"
    [] n = "ed" -> "DIV"
    [] OTHER -> Null

\* The contenteditable attribute; an element without it inherits.
contentEditableAttr(n) == IF n = "ed" THEN "true" ELSE "inherit"

\* Document order of the text nodes.
documentOrder == <<"t1", "t2", "t3", "t4">>

\* HTMLElement.isContentEditable: the element's own attribute, or what its
\* parent has when it inherits. Absent (falsy) on a text node.
RECURSIVE isContentEditable(_, _)
isContentEditable(parentNode, n) ==
  IF n \notin ElementNodes THEN FALSE
  ELSE IF contentEditableAttr(n) = "true" THEN TRUE
  ELSE IF contentEditableAttr(n) = "false" THEN FALSE
  ELSE parentNode[n] # Null /\ isContentEditable(parentNode, parentNode[n])

\* node.contains(n), n # node
RECURSIVE isDescendant(_, _, _)
isDescendant(parentNode, n, root) ==
  /\ parentNode[n] # Null
  /\ (parentNode[n] = root \/ isDescendant(parentNode, parentNode[n], root))

\* A list of HTML tags we NEVER touch.
ignoredTags == {"SCRIPT", "STYLE", "NOSCRIPT", "TEXTAREA", "INPUT"}

isEditable(parentNode, node) ==
  \/ isContentEditable(parentNode, node)
  \/ (parentNode[node] # Null /\ isContentEditable(parentNode, parentNode[node]))

\* The test processNode and both acceptNode filters make on a text node.
isSkipped(parentNode, node) ==
  \/ tagName(parentNode[node]) \in ignoredTags
  \/ isEditable(parentNode, parentNode[node])

\* The matches one replace call replaced: where, in which text, by what.
replacedIn(node, pass, text, spans, cache, cacheLower) ==
  [i \in 1..Len(spans) |->
     [node |-> node, pass |-> pass, text |-> text, at |-> spans[i].at, end |-> spans[i].end,
      by |-> resolve(cache, cacheLower, SubSeq(text, spans[i].at, spans[i].end - 1))]]

\* One pass, if (regex) text.replace(regex, replaceCallback), given the
\* matches of the regex in the text: the new text, the number of
\* replaceCallback calls, what was replaced, and the text scanned when
\* there is a regex.
passOver(E, node, pass, regex, text, spans) ==
  [text |-> replaceSpans(text, spans, 1, E.wordMapCache, E.wordMapCacheLower),
   calls |-> Len(spans),
   replaced |-> replacedIn(node, pass, text, spans, E.wordMapCache, E.wordMapCacheLower),
   scanned |-> IF regex # None THEN <<[node |-> node, pass |-> pass, text |-> text]>> ELSE <<>>]

sensitivePass(E, node, text) ==
  passOver(E, node, "sensitive", E.sensitiveRegex, text, matches(E.sensitiveRegex, text))

insensitivePass(E, node, text) ==
  passOver(E, node, "insensitive", E.insensitiveRegex, text, matches(E.insensitiveRegex, text))

\* What a processNode call that returns early leaves.
unchanged(text) ==
  [value |-> text, wrote |-> FALSE, warned |-> FALSE, gaveUp |-> "none", threw |-> FALSE,
   replaced |-> <<>>, scanned |-> <<>>]

\* The catch block throwing the timeout on instead of returning.
afterPassesRethrown(text, late, first, second) ==
  IF late >= 1 /\ late <= first.calls + second.calls
  THEN [unchanged(text) EXCEPT !.warned = TRUE, !.threw = TRUE,
                               !.gaveUp = IF late <= first.calls THEN "sensitive" ELSE "insensitive"]
  ELSE [value |-> second.text,
        wrote |-> (first.text # text \/ second.text # first.text),
        warned |-> FALSE,
        gaveUp |-> "none",
        threw |-> FALSE,
        replaced |-> first.replaced \o second.replaced,
        scanned |-> first.scanned \o second.scanned]

\* processNode assigning node.nodeValue after each pass that changed the
\* text: a timeout in the second pass leaves the text of the first.
afterPassesPartial(text, late, first, second) ==
  IF late >= 1 /\ late <= first.calls
  THEN [unchanged(text) EXCEPT !.warned = TRUE, !.gaveUp = "sensitive"]
  ELSE IF late >= 1 /\ late <= first.calls + second.calls
  THEN [unchanged(text) EXCEPT !.warned = TRUE, !.gaveUp = "insensitive",
                               !.value = first.text, !.wrote = (first.text # text)]
  ELSE [value |-> second.text,
        wrote |-> (first.text # text \/ second.text # first.text),
        warned |-> FALSE,
        gaveUp |-> "none",
        threw |-> FALSE,
        replaced |-> first.replaced \o second.replaced,
        scanned |-> first.scanned \o second.scanned]

\* The catch block assigning what the replace calls would have made.
afterPassesWritten(text, late, first, second) ==
  [value |-> second.text,
   wrote |-> (first.text # text \/ second.text # first.text),
   warned |-> late >= 1 /\ late <= first.calls + second.calls,
   gaveUp |-> IF late >= 1 /\ late <= first.calls THEN "sensitive"
              ELSE IF late >= 1 /\ late <= first.calls + second.calls THEN "insensitive"
              ELSE "none",
   threw |-> FALSE,
   replaced |-> first.replaced \o second.replaced,
   scanned |-> first.scanned \o second.scanned]

\* processNode comparing the final text with the node's text instead of
\* keeping the changed flag.
afterPassesCompared(text, late, first, second) ==
  IF late >= 1 /\ late <= first.calls + second.calls
  THEN [unchanged(text) EXCEPT !.warned = TRUE,
                               !.gaveUp = IF late <= first.calls THEN "sensitive" ELSE "insensitive"]
  ELSE [value |-> second.text,
        wrote |-> second.text # text,
        warned |-> FALSE,
        gaveUp |-> "none",
        threw |-> FALSE,
        replaced |-> first.replaced \o second.replaced,
        scanned |-> first.scanned \o second.scanned]

\* The try block of processNode after its two passes, first and second:
\* the timeout thrown by the replaceCallback call number late is caught
\* and the node is given up; otherwise the node is assigned if a pass
\* changed the text.
afterPasses(text, late, first, second) ==
  IF late >= 1 /\ late <= first.calls + second.calls
  THEN [unchanged(text) EXCEPT !.warned = TRUE,
                               !.gaveUp = IF late <= first.calls THEN "sensitive" ELSE "insensitive"]
  ELSE [value |-> second.text,
        wrote |-> (first.text # text \/ second.text # first.text),
        warned |-> FALSE,
        gaveUp |-> "none",
        threw |-> FALSE,
        replaced |-> first.replaced \o second.replaced,
        scanned |-> first.scanned \o second.scanned]

\* The second pass run on the node's text instead of on what the first
\* pass made of it.
afterFirstPassOnOriginal(E, node, text, late, first) ==
  afterPasses(text, late, first, insensitivePass(E, node, text))

\* The second pass runs on the text the first pass made.
afterFirstPass(E, node, text, late, first) ==
  afterPasses(text, late, first, insensitivePass(E, node, first.text))

\* processNode returning, instead of throwing, when the node has no parent.
replaceTextSwallowing(E, P, node, text, late) ==
  IF P[node] = Null THEN unchanged(text)
  ELSE IF isSkipped(P, node) THEN unchanged(text)
  ELSE afterFirstPass(E, node, text, late, sensitivePass(E, node, text))

\* processNode from its second line on. Reading node.parentNode.tagName
\* of a node that has no parent throws a TypeError.
replaceText(E, P, node, text, late) ==
  IF P[node] = Null THEN [unchanged(text) EXCEPT !.threw = TRUE]
  ELSE IF isSkipped(P, node) THEN unchanged(text)
  ELSE afterFirstPass(E, node, text, late, sensitivePass(E, node, text))

\* processNode without its first line, the master-switch test.
processNodeWithoutSwitch(E, P, node, text, late) == replaceText(E, P, node, text, late)

\* processNode(node). E is the engine's state (the five globals), P the
\* parentNode of every node, text the node's nodeValue. late is the clock:
\* the number of the replaceCallback call (counted over both passes) at
\* which performance.now() - startTime first exceeds REGEX_TIMEOUT_MS, 0
\* when it never does. The result is what the call leaves: the nodeValue,
\* whether node.nodeValue was assigned, whether the timeout warning was
\* logged, whether an error was thrown out of the call, and the matches
\* the two replace calls replaced and the text each replace call was made
\* on (none when the call was given up).
processNode(E, P, node, text, late) ==
  IF ~truthy(E.extensionEnabled) THEN unchanged(text)
  ELSE replaceText(E, P, node, text, late)

\* The number of replaceCallback calls the two passes make on a text.
callsAfter(E, node, first) == first.calls + insensitivePass(E, node, first.text).calls

callbackCalls(E, node, text) == callsAfter(E, node, sensitivePass(E, node, text))

-----------------------------------------------------------------------------
(* Traversal *)

\* What a run of processNode over a list of nodes leaves. V is the
\* nodeValue of every text node, late the clock of every node's call. An
\* error thrown by one call ends the run. processed lists the nodes
\* processNode was called on, written and warned the nodes assigned and the
\* nodes given up on, replaced the matches replaced, scanned the texts the
\* replace calls were made on, calls the functions the handler called.
merged(R, node, r) ==
  [nodeValue |-> [R.nodeValue EXCEPT ![node] = r.value],
   calls |-> R.calls,
   processed |-> Append(R.processed, node),
   written |-> IF r.wrote THEN R.written \cup {node} ELSE R.written,
   warned |-> IF r.warned THEN R.warned \cup {node} ELSE R.warned,
   gaveUp |-> IF r.warned THEN Append(R.gaveUp, [node |-> node, pass |-> r.gaveUp]) ELSE R.gaveUp,
   replaced |-> R.replaced \o r.replaced,
   scanned |-> R.scanned \o r.scanned,
   threw |-> r.threw]

RECURSIVE processAll(_, _, _, _, _)
processAll(E, P, R, nodes, late) ==
  IF nodes = <<>> \/ R.threw THEN R
  ELSE processAll(E, P,
                  merged(R, Head(nodes),
                         processNode(E, P, Head(nodes), R.nodeValue[Head(nodes)],
                                     late[Head(nodes)])),
                  Tail(nodes), late)

\* The state of a handler that has not scanned anything yet.
untouched(V) ==
  [nodeValue |-> V, calls |-> <<>>, processed |-> <<>>, written |-> {}, warned |-> {},
   gaveUp |-> <<>>,
   replaced |-> <<>>, scanned |-> <<>>, threw |-> FALSE]

called(R, fn, arg) == [R EXCEPT !.calls = Append(R.calls, <<fn, arg>>)]

\* The text nodes a TreeWalker rooted at root visits with the acceptNode
\* filter of processDocument and processElement, in document order.
RECURSIVE acceptedFrom(_, _, _)
acceptedFrom(P, root, i) ==
  IF i > Len(documentOrder) THEN <<>>
  ELSE LET n == documentOrder[i] IN
       (IF isDescendant(P, n, root) /\ ~isSkipped(P, n) THEN <<n>> ELSE <<>>)
       \o acceptedFrom(P, root, i + 1)

hasMatcher(E) == E.sensitiveRegex # None \/ E.insensitiveRegex # None

\* processDocument(), called in a handler that has done R so far. body is
\* document.body, Null while the page has none.
processDocument(E, P, body, R, late) ==
  IF ~truthy(E.extensionEnabled) \/ ~hasMatcher(E) \/ body = Null
  THEN called(R, "processDocument", "document")
  ELSE processAll(E, P, called(R, "processDocument", "document"), acceptedFrom(P, body, 1), late)

\* processElement(element)
processElement(E, P, element, R, late) ==
  IF ~truthy(E.extensionEnabled) \/ ~hasMatcher(E)
  THEN called(R, "processElement", element)
  ELSE processAll(E, P, called(R, "processElement", element),
                  IF element \in TextNodes THEN <<element>> ELSE acceptedFrom(P, element, 1),
                  late)

-----------------------------------------------------------------------------
(* Handlers *)

\* updateRegexes adding to the lookup tables it finds instead of starting
\* from empty ones: a key of the previous rule set stays.
withRegexesMerged(E, compiled) ==
  [extensionEnabled |-> E.extensionEnabled,
   sensitiveRegex |-> compiled.sensitiveRegex,
   insensitiveRegex |-> compiled.insensitiveRegex,
   wordMapCache |->
     [k \in DOMAIN E.wordMapCache \cup DOMAIN compiled.wordMapCache |->
        IF k \in DOMAIN compiled.wordMapCache THEN compiled.wordMapCache[k]
        ELSE E.wordMapCache[k]],
   wordMapCacheLower |->
     [k \in DOMAIN E.wordMapCacheLower \cup DOMAIN compiled.wordMapCacheLower |->
        IF k \in DOMAIN compiled.wordMapCacheLower THEN compiled.wordMapCacheLower[k]
        ELSE E.wordMapCacheLower[k]]]

\* The engine's globals with the four updateRegexes assigns replaced.
withRegexes(E, compiled) ==
  [extensionEnabled |-> E.extensionEnabled,
   sensitiveRegex |-> compiled.sensitiveRegex,
   insensitiveRegex |-> compiled.insensitiveRegex,
   wordMapCache |-> compiled.wordMapCache,
   wordMapCacheLower |-> compiled.wordMapCacheLower]

\* The callback of chrome.storage.sync.get(['wordMap', 'extensionEnabled'])
\* up to the creation of the observer. data is what the store holds.
\* startupRuns: the test of line 283; startupEngine: the globals after the
\* callback; startup: the globals E, what the handler did to the
\* document, R, and the rule set it compiled, if it compiled one.
startupRuns(data) == data.wordMap # None /\ data.extensionEnabled # Some(FALSE)

startupEngine(E, data) ==
  IF startupRuns(data)
  THEN withRegexes([E EXCEPT !.extensionEnabled = Some(TRUE)], updateRegexes(data.wordMap[1]))
  ELSE [E EXCEPT !.extensionEnabled = Some(data.extensionEnabled # Some(FALSE))]

startupWith(E2, P, body, V, data, late) ==
  [E |-> E2,
   R |-> IF startupRuns(data)
         THEN processDocument(E2, P, body, called(untouched(V), "updateRegexes", "wordMap"), late)
         ELSE untouched(V),
   compiled |-> IF startupRuns(data) THEN Some(data.wordMap[1]) ELSE None]

startup(E, P, body, V, data, late) == startupWith(startupEngine(E, data), P, body, V, data, late)

\* The chrome.storage.onChanged listener. changes.wordMap and
\* changes.extensionEnabled are None or Some([newValue |-> v]), v itself
\* None when the key was removed from the store. newMapOf: newValue || {};
\* onChangedEngine: the globals after the listener.
newMapOf(changes) ==
  IF changes.wordMap[1].newValue # None THEN changes.wordMap[1].newValue[1] ELSE <<>>

switched(E, changes) ==
  IF changes.extensionEnabled # None
  THEN [E EXCEPT !.extensionEnabled = changes.extensionEnabled[1].newValue]
  ELSE E

onChangedEngine(E, changes, area) ==
  IF area # "sync" THEN E
  ELSE IF changes.wordMap # None
       THEN withRegexes(switched(E, changes), updateRegexes(newMapOf(changes)))
  ELSE switched(E, changes)

onChangedWith(E2, P, body, V, changes, area, late) ==
  IF area # "sync" THEN [E |-> E2, R |-> untouched(V), compiled |-> None]
  ELSE [E |-> E2,
        R |-> IF truthy(E2.extensionEnabled)
              THEN processDocument(E2, P, body,
                                   IF changes.wordMap # None
                                   THEN called(untouched(V), "updateRegexes", "wordMap")
                                   ELSE untouched(V),
                                   late)
              ELSE IF changes.wordMap # None
                   THEN called(untouched(V), "updateRegexes", "wordMap")
                   ELSE untouched(V),
        compiled |-> IF changes.wordMap # None THEN Some(newMapOf(changes)) ELSE None]

onChanged(E, P, body, V, changes, area, late) ==
  onChangedWith(onChangedEngine(E, changes, area), P, body, V, changes, area, late)

\* The added nodes of a batch of mutation records, in the order the
\* callback's two loops visit them.
RECURSIVE addedNodesOf(_)
addedNodesOf(batch) ==
  IF batch = <<>> THEN <<>> ELSE Head(batch).addedNodes \o addedNodesOf(Tail(batch))

RECURSIVE processElements(_, _, _, _, _)
processElements(E, P, R, elements, late) ==
  IF elements = <<>> \/ R.threw THEN R
  ELSE processElements(E, P, processElement(E, P, Head(elements), R, late), Tail(elements), late)

\* The MutationObserver callback.
observerCallback(E, P, V, batch, late) ==
  IF ~truthy(E.extensionEnabled) THEN untouched(V)
  ELSE processElements(E, P, untouched(V), addedNodesOf(batch), late)

-----------------------------------------------------------------------------
(* State *)

VARIABLES
  storeWordMap,       \* chrome.storage.sync 'wordMap': None or Some(rule set)
  storeEnabled,       \* chrome.storage.sync 'extensionEnabled': None or Some(boolean)
  changeQueue,        \* onChanged events the content script has not handled yet
  extensionEnabled,   \* the engine's master switch: Some(boolean), None when undefined
  sensitiveRegex,     \* None or Some(matcher)
  insensitiveRegex,   \* None or Some(matcher)
  wordMapCache,       \* word -> data
  wordMapCacheLower,  \* lowercase word -> data
  loaded,             \* the startup callback has run
  observing,          \* observer.observe(document.body, ...) was called
  body,               \* document.body, Null while the document has none
  parentNode,         \* node -> its parent or Null
  nodeValue,          \* text node -> its text
  mutations,          \* mutation records queued for the observer
  writes,             \* store writes counted against MaxWrites
  pageOps,            \* page operations made so far
  snapshot,           \* the rule set of the last updateRegexes call, None before it
  completed,          \* the text nodes processed to the end since that call
  seen,               \* the text nodes given to processNode since they were last inserted
  last,               \* what the last step was and did (see untouched)
  injected,           \* a tab holds the content script: its onChanged listener is registered
  rows,               \* the settings page's rules table, a row per addRowToTable call
  download,           \* the file the settings page exported last, None before
  request,            \* the settings page's last operation and how it ended
  requests,           \* the operations made on the settings page so far
  reads               \* the operations whose chrome.storage.sync.get has not called back yet

storeVars == <<storeWordMap, storeEnabled, changeQueue, writes>>
engineVars == <<extensionEnabled, sensitiveRegex, insensitiveRegex, wordMapCache,
                wordMapCacheLower, loaded, observing>>
pageVars == <<body, parentNode, mutations, pageOps>>
historyVars == <<snapshot, completed, seen>>
settingsVars == <<injected, rows, download, request, requests, reads>>
vars == <<storeVars, engineVars, pageVars, nodeValue, historyVars, last, settingsVars>>

\* The settings page is not open; the content script is in a tab.
noRequest == [op |-> "none", mode |-> "none", reason |-> "none", wrote |-> FALSE, outcome |-> "none"]

settingsClosed ==
  /\ injected = TRUE
  /\ rows = <<>>
  /\ download = None
  /\ request = noRequest
  /\ requests = 0
  /\ reads = <<>>

\* The engine's five globals as one value.
Engine ==
  [extensionEnabled |-> extensionEnabled,
   sensitiveRegex |-> sensitiveRegex,
   insensitiveRegex |-> insensitiveRegex,
   wordMapCache |-> wordMapCache,
   wordMapCacheLower |-> wordMapCacheLower]

\* The four globals of the compiled state as one value.
Compiled ==
  [wordMapCache |-> wordMapCache,
   wordMapCacheLower |-> wordMapCacheLower,
   sensitiveRegex |-> sensitiveRegex,
   insensitiveRegex |-> insensitiveRegex]

-----------------------------------------------------------------------------
(* Inputs and bounds *)

\* Store writes and page operations of one run.
MaxWrites == 2
MaxPageOps == 1
\* The latest replaceCallback call at which the clock may run out.
MaxLate == 2

rule(word, replacement, caseSensitive, enabled) ==
  [word |-> word,
   data |-> [replacement |-> replacement, caseSensitive |-> caseSensitive, enabled |-> enabled]]

\* The rule sets the settings page saves in the runs of Spec: the empty set,
\* one enabled case-insensitive rule, one disabled rule, and a set with a
\* disabled rule and a case-sensitive rule saved without an enabled field.
RuleSets ==
  { <<>>,
    << rule(<<"a">>, <<"X">>, Some(FALSE), Some(TRUE)) >>,
    << rule(<<"a">>, <<"X">>, Some(FALSE), Some(FALSE)) >>,
    << rule(<<"a">>, <<"Y">>, Some(FALSE), Some(FALSE)),
       rule(<<"b">>, <<"Z">>, Some(TRUE), None) >> }

\* The text every text node of the page starts with.
pageText == [n \in TextNodes |-> IF n = "t1" THEN <<"a", " ", "b">> ELSE <<"a">>]

\* The nodes the page appends and removes; the others stay where they are.
Movable == {"div", "t1", "ns", "span", "ed"}

\* document.contains(n)
isConnected(P, b, n) == b # Null /\ (n = b \/ isDescendant(P, n, b))

\* The clocks of one handler run with the globals E: a clock can run out
\* only at a replaceCallback call that is made, so only on a node that is
\* not skipped, and no later than the last call on its text.
lastCall(E, P, V, n) ==
  IF P[n] = Null \/ isSkipped(P, n) \/ ~truthy(E.extensionEnabled) THEN 0
  ELSE IF callbackCalls(E, n, V[n]) < MaxLate THEN callbackCalls(E, n, V[n])
  ELSE MaxLate

RECURSIVE clocksOf(_, _, _, _)
clocksOf(E, P, V, nodes) ==
  IF nodes = <<>> THEN {<<>>}
  ELSE {(Head(nodes) :> k) @@ rest :
          k \in 0..lastCall(E, P, V, Head(nodes)), rest \in clocksOf(E, P, V, Tail(nodes))}

Clocks(E, P, V) == clocksOf(E, P, V, documentOrder)

noClock == [n \in TextNodes |-> 0]

idle(step) ==
  [step |-> step, calls |-> <<>>, processed |-> <<>>, written |-> {}, warned |-> {},
   gaveUp |-> <<>>,
   replaced |-> <<>>, scanned |-> <<>>, threw |-> FALSE]

did(step, R) ==
  [step |-> step, calls |-> R.calls, processed |-> R.processed, written |-> R.written,
   warned |-> R.warned, gaveUp |-> R.gaveUp, replaced |-> R.replaced, scanned |-> R.scanned, threw |-> R.threw]

\* The nodes both passes of a processNode call ran on to the end.
nodesOf(scanned) == {scanned[i].node : i \in 1..Len(scanned)}

-----------------------------------------------------------------------------
(* Actions *)

\* The state when the content script has been injected: the listener is
\* registered, the store read is pending. The store holds what earlier
\* sessions left; the page has its body and at most one of the movable
\* nodes is not in it yet.
Init ==
  /\ storeWordMap \in {None} \cup {Some(w) : w \in RuleSets}
  /\ storeEnabled \in {None, Some(TRUE), Some(FALSE)}
  /\ changeQueue = <<>>
  /\ writes = 0
  /\ extensionEnabled = Some(TRUE)
  /\ sensitiveRegex = None
  /\ insensitiveRegex = None
  /\ wordMapCache = <<>>
  /\ wordMapCacheLower = <<>>
  /\ loaded = FALSE
  /\ observing = FALSE
  /\ body = "body"
  /\ \E detached \in {{}} \cup {{n} : n \in Movable} :
       parentNode = [n \in Nodes |-> IF n \in detached THEN Null ELSE homeOf(n)]
  /\ nodeValue = pageText
  /\ mutations = <<>>
  /\ pageOps = 0
  /\ snapshot = None
  /\ completed = {}
  /\ seen = {}
  /\ last = idle("init")
  /\ settingsClosed

setEngine(E) ==
  /\ extensionEnabled' = E.extensionEnabled
  /\ sensitiveRegex' = E.sensitiveRegex
  /\ insensitiveRegex' = E.insensitiveRegex
  /\ wordMapCache' = E.wordMapCache
  /\ wordMapCacheLower' = E.wordMapCacheLower

\* What a handler run that ends as out, or a scan that ends as R, leaves in
\* the state.
handled(step, out) ==
  /\ setEngine(out.E)
  /\ nodeValue' = out.R.nodeValue
  /\ snapshot' = IF out.compiled # None THEN out.compiled ELSE snapshot
  /\ completed' = IF out.compiled # None THEN nodesOf(out.R.scanned)
                  ELSE completed \cup nodesOf(out.R.scanned)
  /\ seen' = seen \cup {out.R.processed[i] : i \in 1..Len(out.R.processed)}
  /\ last' = did(step, out.R)

scanDone(step, R) ==
  /\ nodeValue' = R.nodeValue
  /\ completed' = completed \cup nodesOf(R.scanned)
  /\ seen' = seen \cup {R.processed[i] : i \in 1..Len(R.processed)}
  /\ last' = did(step, R)

stored == [wordMap |-> storeWordMap, extensionEnabled |-> storeEnabled]

\* The startup callback runs: load, first pass, observer.
Load ==
  /\ ~loaded
  /\ \E late \in Clocks(startupEngine(Engine, stored), parentNode, nodeValue) :
       handled("startup", startup(Engine, parentNode, body, nodeValue, stored, late))
  /\ loaded' = TRUE
  /\ observing' = (body # Null)
  /\ UNCHANGED <<storeVars, pageVars, settingsVars>>

\* The listener putting an empty rule set into the store when the event
\* says the rule set was removed.
ChangedWritingBack ==
  /\ changeQueue # <<>>
  /\ \E late \in Clocks(onChangedEngine(Engine, Head(changeQueue).changes, Head(changeQueue).area),
                        parentNode, nodeValue) :
       handled("onChanged",
               onChanged(Engine, parentNode, body, nodeValue, Head(changeQueue).changes,
                         Head(changeQueue).area, late))
  /\ changeQueue' = Tail(changeQueue)
  /\ storeWordMap' = IF /\ Head(changeQueue).changes.wordMap # None
                        /\ Head(changeQueue).changes.wordMap[1].newValue = None
                     THEN Some(<<>>) ELSE storeWordMap
  /\ UNCHANGED <<storeEnabled, writes, loaded, observing, pageVars, settingsVars>>

\* The listener handles the oldest pending change event.
Changed ==
  /\ changeQueue # <<>>
  /\ \E late \in Clocks(onChangedEngine(Engine, Head(changeQueue).changes, Head(changeQueue).area),
                        parentNode, nodeValue) :
       handled("onChanged",
               onChanged(Engine, parentNode, body, nodeValue, Head(changeQueue).changes,
                         Head(changeQueue).area, late))
  /\ changeQueue' = Tail(changeQueue)
  /\ UNCHANGED <<storeWordMap, storeEnabled, writes, loaded, observing, pageVars, settingsVars>>

\* The observer also told of text changes, and the callback scanning their
\* targets: every node the callback writes is queued for it again.
ObservedFeeding ==
  /\ mutations # <<>>
  /\ \E late \in Clocks(Engine, parentNode, nodeValue) :
       scanDone("observer", observerCallback(Engine, parentNode, nodeValue, mutations, late))
  /\ mutations' = IF last'.written = {} THEN <<>>
                  ELSE <<[addedNodes |-> <<CHOOSE n \in last'.written : TRUE>>]>>
  /\ UNCHANGED <<storeVars, engineVars, body, parentNode, pageOps, snapshot, settingsVars>>

\* The observer's callback handles the queued mutation records as one batch.
Observed ==
  /\ mutations # <<>>
  /\ \E late \in Clocks(Engine, parentNode, nodeValue) :
       scanDone("observer", observerCallback(Engine, parentNode, nodeValue, mutations, late))
  /\ mutations' = <<>>
  /\ UNCHANGED <<storeVars, engineVars, body, parentNode, pageOps, snapshot, settingsVars>>

change(area, wordMapChange, enabledChange) ==
  [area |-> area, changes |-> [wordMap |-> wordMapChange, extensionEnabled |-> enabledChange]]

\* The settings page saves a rule set: chrome.storage.sync.set({ wordMap }).
SaveRules(w) ==
  /\ writes < MaxWrites
  /\ storeWordMap # Some(w)
  /\ storeWordMap' = Some(w)
  /\ changeQueue' = Append(changeQueue, change("sync", Some([newValue |-> Some(w)]), None))
  /\ writes' = writes + 1
  /\ last' = idle("store")
  /\ UNCHANGED <<storeEnabled, engineVars, pageVars, nodeValue, historyVars, settingsVars>>

\* The settings page sets the master switch:
\* chrome.storage.sync.set({ extensionEnabled: isEnabled }).
SaveSwitch(b) ==
  /\ writes < MaxWrites
  /\ storeEnabled # Some(b)
  /\ storeEnabled' = Some(b)
  /\ changeQueue' = Append(changeQueue, change("sync", None, Some([newValue |-> Some(b)])))
  /\ writes' = writes + 1
  /\ last' = idle("store")
  /\ UNCHANGED <<storeWordMap, engineVars, pageVars, nodeValue, historyVars, settingsVars>>

\* A key leaves the synced store (cleared on another device).
RemoveRules ==
  /\ writes < MaxWrites
  /\ storeWordMap # None
  /\ storeWordMap' = None
  /\ changeQueue' = Append(changeQueue, change("sync", Some([newValue |-> None]), None))
  /\ writes' = writes + 1
  /\ last' = idle("store")
  /\ UNCHANGED <<storeEnabled, engineVars, pageVars, nodeValue, historyVars, settingsVars>>

RemoveSwitch ==
  /\ writes < MaxWrites
  /\ storeEnabled # None
  /\ storeEnabled' = None
  /\ changeQueue' = Append(changeQueue, change("sync", None, Some([newValue |-> None])))
  /\ writes' = writes + 1
  /\ last' = idle("store")
  /\ UNCHANGED <<storeWordMap, engineVars, pageVars, nodeValue, historyVars, settingsVars>>

\* A key other than 'wordMap' and 'extensionEnabled' changes in a storage
\* area: the event names neither key.
OtherChange(area) ==
  /\ writes < MaxWrites
  /\ changeQueue' = Append(changeQueue, change(area, None, None))
  /\ writes' = writes + 1
  /\ last' = idle("store")
  /\ UNCHANGED <<storeWordMap, storeEnabled, engineVars, pageVars, nodeValue, historyVars, settingsVars>>

\* The page appends a node (with what is below it) at its place. The
\* observer, once observing, gets a record when the place is in the document.
appendChild(most, n) ==
  /\ pageOps < most
  /\ parentNode[n] = Null
  /\ parentNode' = [parentNode EXCEPT ![n] = homeOf(n)]
  /\ mutations' = IF observing /\ isConnected(parentNode, body, homeOf(n))
                  THEN Append(mutations, [addedNodes |-> <<n>>]) ELSE mutations
  /\ pageOps' = pageOps + 1
  /\ last' = idle("page")
  /\ UNCHANGED <<storeVars, engineVars, body, nodeValue, historyVars, settingsVars>>

PageAppend(n) == appendChild(MaxPageOps, n)

\* The page removes a node (with what is below it). The record the
\* observer gets has no added nodes.
removeChild(most, n) ==
  /\ pageOps < most
  /\ parentNode[n] # Null
  /\ parentNode' = [parentNode EXCEPT ![n] = Null]
  /\ mutations' = IF observing /\ isConnected(parentNode, body, n)
                  THEN Append(mutations, [addedNodes |-> <<>>]) ELSE mutations
  /\ pageOps' = pageOps + 1
  /\ last' = idle("page")
  /\ seen' = {t \in seen : t # n /\ ~isDescendant(parentNode, t, n)}
  /\ UNCHANGED <<storeVars, engineVars, body, nodeValue, snapshot, completed, settingsVars>>

PageRemove(n) == removeChild(MaxPageOps, n)

Next ==
  \/ Load
  \/ Changed
  \/ Observed
  \/ \E w \in RuleSets : SaveRules(w)
  \/ \E b \in BOOLEAN : SaveSwitch(b)
  \/ RemoveRules
  \/ RemoveSwitch
  \/ \E area \in {"sync", "local"} : OtherChange(area)
  \/ \E n \in Movable : PageAppend(n)
  \/ \E n \in Movable : PageRemove(n)

Spec == Init /\ [][Next]_vars

\* The browser delivers what is pending: the callback of the store read
\* (the step of Next that sets loaded is Load), the oldest change
\* notification (the step that takes the head of changeQueue is Changed)
\* and the queued mutation records (the step that empties mutations is
\* Observed).
SpecF ==
  /\ Spec
  /\ WF_loaded(~loaded /\ loaded' = TRUE)
  /\ WF_changeQueue(changeQueue # <<>> /\ changeQueue' = Tail(changeQueue))
  /\ WF_mutations(mutations # <<>> /\ mutations' = <<>>)

-----------------------------------------------------------------------------
(* The matching engine on enumerated rule sets and texts *)

\* The longest text of SpecP and of SpecR.
MaxLen == 4
MaxRescanLen == 3

\* A lowercase letter, its uppercase, a second letter and a punctuation mark.
Alphabet == {"a", "A", "b", "!"}

RECURSIVE stringsUpTo(_)
stringsUpTo(n) ==
  IF n = 0 THEN {<<>>}
  ELSE LET shorter == stringsUpTo(n - 1)
       IN shorter \cup {Append(t, c) : t \in {u \in shorter : Len(u) = n - 1}, c \in Alphabet}

\* The rules of SpecP and SpecR, all enabled: a word and a word it is a
\* prefix of, a key ending in punctuation, a key of punctuation only, keys
\* that differ only in case, in both modes, replacements that are empty,
\* that contain their own key, that are another rule's key.
RulePool ==
  { rule(<<"a">>, <<"X">>, Some(FALSE), Some(TRUE)),
    rule(<<"a", "b">>, <<"Y">>, Some(FALSE), Some(TRUE)),
    rule(<<"a", "!">>, <<"Z">>, Some(FALSE), Some(TRUE)),
    rule(<<"!">>, <<>>, Some(FALSE), Some(TRUE)),
    rule(<<"b">>, <<"A">>, Some(FALSE), Some(TRUE)),
    rule(<<"A">>, <<"b">>, Some(FALSE), Some(TRUE)),
    rule(<<"A">>, <<"Y">>, Some(TRUE), Some(TRUE)),
    rule(<<"a">>, <<"a", "!">>, Some(TRUE), Some(TRUE)),
    rule(<<"!", "a">>, <<"b">>, Some(TRUE), Some(TRUE)) }

\* The rule sets of SpecP and SpecR: at most two rules of the pool, in
\* either order, with different keys (a rule set is an object: one entry
\* per key).
InputRuleSets ==
  {<<>>} \cup {<<r>> : r \in RulePool}
  \cup {<<pair[1], pair[2]>> : pair \in {x \in RulePool \X RulePool : x[1].word # x[2].word}}

\* A page whose only text is t1, a store that holds a rule set and the switch
\* on, the content script just injected.
InitWith(ruleSets, texts) ==
  /\ storeWordMap \in {Some(w) : w \in ruleSets}
  /\ storeEnabled = Some(TRUE)
  /\ changeQueue = <<>>
  /\ writes = 0
  /\ extensionEnabled = Some(TRUE)
  /\ sensitiveRegex = None
  /\ insensitiveRegex = None
  /\ wordMapCache = <<>>
  /\ wordMapCacheLower = <<>>
  /\ loaded = FALSE
  /\ observing = FALSE
  /\ body = "body"
  /\ parentNode = [n \in Nodes |-> IF n \in {"ns", "ed"} THEN Null ELSE homeOf(n)]
  /\ \E text \in texts : nodeValue = [pageText EXCEPT !["t1"] = text]
  /\ mutations = <<>>
  /\ pageOps = 0
  /\ snapshot = None
  /\ completed = {}
  /\ seen = {}
  /\ last = idle("init")
  /\ settingsClosed

\* One scan of one text under one rule set.
InitP == InitWith(InputRuleSets, stringsUpTo(MaxLen))

NextP == Load

SpecP == InitP /\ [][NextP]_vars

\* The load, then the master switch turned off and on again: a second
\* whole-document scan with the rule set unchanged.
InitR == InitWith(InputRuleSets, stringsUpTo(MaxRescanLen))

NextR ==
  \/ Load
  \/ Changed
  \/ \E b \in BOOLEAN : SaveSwitch(b)

SpecR == InitR /\ [][NextR]_vars

\* Rule sets and texts with the micro sign and the Greek mu: a rule for
\* each of them in each mode, one rule or two with different keys; texts
\* of one or two of these characters and an ASCII letter.
GreekTexts ==
  LET chars == {"a", MicroSign, GreekMu, GreekCapitalMu}
  IN {<<c>> : c \in chars} \cup {<<c, d>> : c \in chars, d \in chars}

GreekRuleSets ==
  LET pool == { rule(<<GreekMu>>, <<"X">>, Some(FALSE), Some(TRUE)),
                rule(<<MicroSign>>, <<"Y">>, Some(FALSE), Some(TRUE)),
                rule(<<GreekMu>>, <<"Z">>, Some(TRUE), Some(TRUE)),
                rule(<<"a">>, <<"X">>, Some(FALSE), Some(TRUE)) }
  IN {<<>>} \cup {<<r>> : r \in pool}
     \cup {<<pair[1], pair[2]>> : pair \in {x \in pool \X pool : x[1].word # x[2].word}}

\* The load on one of these texts under one of these rule sets, then the
\* settings page saving other rule sets and the listener rescanning.

NextG ==
  \/ Load
  \/ Changed
  \/ \E w \in GreekRuleSets : SaveRules(w)

SpecG == InitWith(GreekRuleSets, GreekTexts) /\ [][NextG]_vars

\* The load on a text of at most MaxLiteralLen characters, letters and
\* characters that are operators of the RegExp syntax, under one rule or
\* two of which the keys hold such characters.
MaxLiteralLen == 3

SpecL ==
  /\ LET pool == { rule(<<".">>, <<"X">>, Some(FALSE), Some(TRUE)),
                   rule(<<"a", ".", "b">>, <<"Y">>, Some(TRUE), Some(TRUE)),
                   rule(<<"a", "|", "b">>, <<"Z">>, Some(FALSE), Some(TRUE)),
                   rule(<<"a", "*">>, <<"X">>, Some(TRUE), Some(TRUE)),
                   rule(<<"\\", "b">>, <<"Y">>, Some(FALSE), Some(TRUE)),
                   rule(<<"(", "a">>, <<"Z">>, Some(FALSE), Some(TRUE)),
                   rule(<<"[", "a", "]", "+">>, <<"X">>, Some(TRUE), Some(TRUE)),
                   rule(<<"^", "a", "$">>, <<"Y">>, Some(FALSE), Some(TRUE)),
                   rule(<<"a", "?">>, <<"Z">>, Some(FALSE), Some(TRUE)),
                   rule(<<"{", "}">>, <<"X">>, Some(TRUE), Some(TRUE)) }
         chars == {"a", "A", "b", ".", "|", "*", "\\", "(", "^", "$"}
         texts == UNION {[1..n -> chars] : n \in 0..MaxLiteralLen}
     IN InitWith({<<r>> : r \in pool}
                   \cup {<<pair[1], pair[2]>> : pair \in {x \in pool \X pool : x[1].word # x[2].word}},
                 texts)
  /\ [][NextP]_vars

-----------------------------------------------------------------------------
(* Properties: the pattern compiler and the node processor *)

\* The enabled rules of a rule set and those of one pass's bucket.
enabledRules(w) == {w[i] : i \in {j \in 1..Len(w) : w[j].data.enabled # Some(FALSE)}}

bucket(w, pass) ==
  {r \in enabledRules(w) : (r.data.caseSensitive = Some(TRUE)) <=> (pass = "sensitive")}

\* Equality of two strings as a pass compares them.
sameIn(pass, s, t) == IF pass = "sensitive" THEN s = t ELSE toLowerCase(s) = toLowerCase(t)

\* The key occurs in the text at a position, and the characters around the
\* occurrence allow a match: not a word character (or the text's edge) on a
\* side where the key has a word character.
occursAt(pass, key, text, at) ==
  /\ at >= 1
  /\ at + Len(key) - 1 <= Len(text)
  /\ sameIn(pass, SubSeq(text, at, at + Len(key) - 1), key)

boundaryOk(key, text, at) ==
  /\ key[1] \in WordChars => ~isWordAt(text, at - 1)
  /\ key[Len(key)] \in WordChars => ~isWordAt(text, at + Len(key))

\* What the last handler replaced and scanned.
Replaced == {last.replaced[i] : i \in 1..Len(last.replaced)}
Scanned == {last.scanned[i] : i \in 1..Len(last.scanned)}
matched(r) == SubSeq(r.text, r.at, r.end - 1)

\* Position p of a scanned text lies in a span the pass replaced.
covered(s, p) ==
  \E r \in Replaced : r.node = s.node /\ r.pass = s.pass /\ r.at <= p /\ p < r.end

\* C1: longest-match priority. Within one bucket, for two enabled keys of
\* which one is a proper prefix of the other, no replaced span is an
\* occurrence of the shorter key at a position where the longer key
\* matches: the shorter key never shadows the longer one.
C1_LongestMatchPriority ==
  snapshot # None =>
    \A r \in Replaced :
      \A shorter \in bucket(snapshot[1], r.pass) :
        \A longer \in bucket(snapshot[1], r.pass) :
          ~ /\ Len(shorter.word) < Len(longer.word)
            /\ sameIn(r.pass, SubSeq(longer.word, 1, Len(shorter.word)), shorter.word)
            /\ sameIn(r.pass, matched(r), shorter.word)
            /\ occursAt(r.pass, longer.word, r.text, r.at)
            /\ boundaryOk(longer.word, r.text, r.at)

\* C2: boundary correctness. Every replaced span is an occurrence of an
\* enabled key of the pass's bucket with no word character next to it on a
\* side where the key has a word character; and every occurrence of an
\* enabled key that has no word character next to it on such a side (none
\* is required on a side where the key has a non-word character) lies in a
\* replaced span.
C2_BoundaryCorrectness ==
  snapshot # None =>
    /\ \A r \in Replaced :
         /\ \E k \in bucket(snapshot[1], r.pass) : sameIn(r.pass, matched(r), k.word)
         /\ \A k \in bucket(snapshot[1], r.pass) :
              sameIn(r.pass, matched(r), k.word) => boundaryOk(k.word, r.text, r.at)
    /\ \A s \in Scanned :
         \A k \in bucket(snapshot[1], s.pass) :
           \A p \in 1..Len(s.text) :
             occursAt(s.pass, k.word, s.text, p) /\ boundaryOk(k.word, s.text, p)
               => covered(s, p)

\* A scanned text holds a key twice: once inside a word, left alone, and
\* once after a non-word character, replaced.
C2_Witness ==
  /\ snapshot # None
  /\ \E s \in Scanned :
       \E k \in bucket(snapshot[1], s.pass) :
         \E p \in 1..Len(s.text) :
           \E q \in 2..Len(s.text) :
             /\ k.word[1] \in WordChars
             /\ k.word[Len(k.word)] \in WordChars
             /\ occursAt(s.pass, k.word, s.text, p)
             /\ ~boundaryOk(k.word, s.text, p)
             /\ ~covered(s, p)
             /\ occursAt(s.pass, k.word, s.text, q)
             /\ \E r \in Replaced :
                  r.node = s.node /\ r.pass = s.pass /\ r.at = q /\ r.end = q + Len(k.word)

\* C3: case-sensitivity semantics. A span the case-sensitive pass replaces
\* equals the key of an enabled case-sensitive rule exactly and gets that
\* rule's replacement; an occurrence of an enabled case-insensitive rule's
\* key, in any letter casing, is replaced, and a span the case-insensitive
\* pass replaces gets the replacement of an enabled case-insensitive rule
\* whose key it is, ignoring case.
C3_CaseSensitivity ==
  snapshot # None =>
    /\ \A r \in Replaced :
         r.pass = "sensitive" =>
           \E k \in bucket(snapshot[1], "sensitive") :
             k.word = matched(r) /\ r.by = k.data.replacement
    /\ \A r \in Replaced :
         r.pass = "insensitive" =>
           \E k \in bucket(snapshot[1], "insensitive") :
             toLowerCase(k.word) = toLowerCase(matched(r)) /\ r.by = k.data.replacement
    /\ \A s \in Scanned :
         s.pass = "insensitive" =>
           \A k \in bucket(snapshot[1], "insensitive") :
             \A p \in 1..Len(s.text) :
               occursAt("insensitive", k.word, s.text, p) /\ boundaryOk(k.word, s.text, p)
                 => covered(s, p)

\* C4: disabled-rule exclusion. A rule whose enabled field is false in the
\* rule set compiled last is in neither lookup table and in neither
\* matcher, and no span the last handler replaced is an occurrence of its
\* key (unless an enabled rule has the same key up to case); a rule with no
\* enabled field is in the exact lookup table and in its bucket's matcher.
rulesOf(w) == {w[i] : i \in 1..Len(w)}

alternativesOf(regex) ==
  IF regex = None THEN {}
  ELSE LET alternatives == parse(regex[1].source)
       IN {alternatives[i] : i \in 1..Len(alternatives)}

fragmentOf(word) == parse(wordPattern(word))[1]

inExclusionZone(P, n) ==
  \E a \in ElementNodes :
    /\ isDescendant(P, n, a)
    /\ (tagName(a) \in ignoredTags \/ isContentEditable(P, a))

C5_ExclusionZoneInvariance ==
  [][\A n \in TextNodes : inExclusionZone(parentNode, n) => nodeValue'[n] = nodeValue[n]]_vars

\* C6: idempotence under fixed rules. For a rule set in which no rule's
\* replacement contains another rule's key (compared ignoring case, the
\* reading that asks most of the rule set), a whole-document scan by a
\* handler that does not recompile leaves unchanged every text node that
\* was processed to the end since the rule set was compiled.
rescans ==
  /\ \E i \in 1..Len(last'.calls) : last'.calls[i] = <<"processDocument", "document">>
  /\ ~\E i \in 1..Len(last'.calls) : last'.calls[i] = <<"updateRegexes", "wordMap">>
  /\ snapshot # None

noOtherKeyInReplacement(w) ==
  \A i \in 1..Len(w) :
    \A j \in 1..Len(w) :
      i # j => ~Includes(toLowerCase(w[i].data.replacement), toLowerCase(w[j].word))

C6_Idempotence ==
  [][rescans /\ noOtherKeyInReplacement(snapshot[1])
       => \A n \in completed : nodeValue'[n] = nodeValue[n]]_vars

\* C6 as it holds: the same for a rule set whose enabled keys are made of
\* word characters only and in which no enabled rule's replacement
\* contains an enabled rule's key, its own included (compared exactly for
\* the key of a case-sensitive rule, ignoring case for the key of a
\* case-insensitive rule).
wordKeysNotInReplacements(w) ==
  \A k \in enabledRules(w) :
    /\ \A i \in 1..Len(k.word) : k.word[i] \in WordChars
    /\ \A r \in enabledRules(w) :
         IF k.data.caseSensitive = Some(TRUE)
         THEN ~Includes(r.data.replacement, k.word)
         ELSE ~Includes(toLowerCase(r.data.replacement), toLowerCase(k.word))

C6_IdempotenceWordKeys ==
  [][rescans /\ wordKeysNotInReplacements(snapshot[1])
       => \A n \in completed : nodeValue'[n] = nodeValue[n]]_vars

\* The listener turned the switch on again and scanned the document a
\* second time: the text the first scan wrote (it holds a replacement) was
\* scanned to the end and not written.
C6_Witness ==
  /\ last.step = "onChanged"
  /\ \E i \in 1..Len(last.calls) : last.calls[i] = <<"processDocument", "document">>
  /\ snapshot # None
  /\ snapshot[1] # <<>>
  /\ wordKeysNotInReplacements(snapshot[1])
  /\ \E s \in Scanned : s.node = "t1"
  /\ "t1" \in completed
  /\ last.written = {}
  /\ \E i \in 1..Len(nodeValue["t1"]) : nodeValue["t1"][i] \in {"X", "Y"}

\* C7: master switch off to on. After the load, when the listener handles a
\* notification that turns the switch from off to on (no rule-set change in
\* it or pending after it), it calls the whole-document scan, and unless a
\* node timed out the page's text becomes what a whole-document scan with
\* the compilation of the stored rule set makes of it.
storedRules == IF storeWordMap = None THEN <<>> ELSE storeWordMap[1]

changesRules(event) == event.changes.wordMap # None

C7_SwitchOnScans ==
  [][(/\ loaded
      /\ changeQueue # <<>>
      /\ changeQueue' = Tail(changeQueue)
      /\ ~truthy(extensionEnabled)
      /\ Head(changeQueue).changes.extensionEnabled = Some([newValue |-> Some(TRUE)])
      /\ \A i \in 1..Len(changeQueue) : ~changesRules(changeQueue[i]))
     => /\ \E i \in 1..Len(last'.calls) : last'.calls[i] = <<"processDocument", "document">>
        /\ last'.warned = {} =>
             nodeValue' =
               processDocument(withRegexes([Engine EXCEPT !.extensionEnabled = Some(TRUE)],
                                           updateRegexes(storedRules)),
                               parentNode, body, untouched(nodeValue), noClock).nodeValue]_vars

\* C8: while the master switch is off no entry point changes a text node.
\* A handler that leaves the switch off (a mutation batch, a rule-set
\* notification or a switch-off notification, the startup) leaves every
\* text as it was, and in a state where the switch is off a direct call of
\* processNode, processElement or processDocument changes and writes nothing.
C8_SwitchOffNoChange ==
  [][/\ ~truthy(extensionEnabled') => nodeValue' = nodeValue
     /\ ~truthy(extensionEnabled) =>
          /\ \A n \in TextNodes :
               LET r == processNode(Engine, parentNode, n, nodeValue[n], 0)
               IN r.value = nodeValue[n] /\ ~r.wrote
          /\ \A n \in Nodes :
               processElement(Engine, parentNode, n, untouched(nodeValue), noClock).nodeValue
                 = nodeValue
          /\ processDocument(Engine, parentNode, body, untouched(nodeValue), noClock).nodeValue
               = nodeValue]_vars

\* The observer's callback ran with the switch off, a matcher compiled and
\* a text in the document that the matcher matches: the text is as the
\* page wrote it.
C8_Witness ==
  /\ last.step = "observer"
  /\ ~truthy(extensionEnabled)
  /\ hasMatcher(Engine)
  /\ isConnected(parentNode, body, "t1")
  /\ nodeValue["t1"] = pageText["t1"]
  /\ callbackCalls(Engine, "t1", nodeValue["t1"]) > 0

freshCompiled ==
  withRegexes([extensionEnabled |-> Some(TRUE)],
              startupEngine([extensionEnabled |-> Some(TRUE), sensitiveRegex |-> None,
                             insensitiveRegex |-> None, wordMapCache |-> <<>>,
                             wordMapCacheLower |-> <<>>],
                            stored))

\* C10: compiled-state invariant. After the load, with no notification
\* pending, the compiled state (both matchers, both lookup tables) is the
\* one a fresh startup computes from the store's rule set and switch: it
\* depends on nothing else, so two histories that end with the same store
\* end with the same compiled state.
C10_CompiledStateInvariant ==
  loaded /\ changeQueue = <<>> =>
    withRegexes([extensionEnabled |-> Some(TRUE)], Engine) = freshCompiled

-----------------------------------------------------------------------------
(* The page changing under a store that stays as it is *)

\* The page operations of one run of SpecO, and the nodes that may be out
\* of the document when the content script is injected. The script may be
\* injected before the parser has reached <body>.
MaxBatchOps == 3
MaxDetached == 2

InitO ==
  /\ storeWordMap \in {None} \cup {Some(w) : w \in RuleSets}
  /\ storeEnabled \in {None, Some(TRUE), Some(FALSE)}
  /\ changeQueue = <<>>
  /\ writes = 0
  /\ extensionEnabled = Some(TRUE)
  /\ sensitiveRegex = None
  /\ insensitiveRegex = None
  /\ wordMapCache = <<>>
  /\ wordMapCacheLower = <<>>
  /\ loaded = FALSE
  /\ observing = FALSE
  /\ body \in {"body", Null}
  /\ \E detached \in {d \in SUBSET Movable : Cardinality(d) <= MaxDetached} :
       parentNode = [n \in Nodes |-> IF n \in detached THEN Null ELSE homeOf(n)]
  /\ nodeValue = pageText
  /\ mutations = <<>>
  /\ pageOps = 0
  /\ snapshot = None
  /\ completed = {}
  /\ seen = {}
  /\ last = idle("init")
  /\ settingsClosed

\* The parser reaches <body>: document.body exists from now on.
BodyParsed ==
  /\ body = Null
  /\ body' = "body"
  /\ last' = idle("page")
  /\ UNCHANGED <<storeVars, engineVars, parentNode, mutations, pageOps, nodeValue, historyVars, settingsVars>>

NextO ==
  \/ Load
  \/ Observed
  \/ BodyParsed
  \/ \E n \in Movable : appendChild(MaxBatchOps, n)
  \/ \E n \in Movable : removeChild(MaxBatchOps, n)

SpecO == InitO /\ [][NextO]_vars

-----------------------------------------------------------------------------
(* The listener and the observer *)

\* The listener handles the oldest pending change event.
handlesChange == changeQueue # <<>> /\ changeQueue' = Tail(changeQueue)

\* A change event that names neither 'wordMap' nor 'extensionEnabled'.
namesNoKey(event) == event.changes.wordMap = None /\ event.changes.extensionEnabled = None

\* C11: a change notification that concerns neither the rule-set key nor the
\* master-switch key is ignored: the switch and the compiled state stay as
\* they are, updateRegexes and processDocument are not called, and no text
\* node changes.
C11_OtherChangeIgnored ==
  [][handlesChange /\ namesNoKey(Head(changeQueue))
     => /\ Engine' = Engine
        /\ last'.calls = <<>>
        /\ nodeValue' = nodeValue]_vars

\* The observer's callback handles the queued records.
observes == mutations # <<>> /\ mutations' = <<>>

\* The processElement calls of a handler run, one per added node.
scansOf(added) == [i \in 1..Len(added) |-> <<"processElement", added[i]>>]

\* The text node is one of the added nodes or below one of them.
inSubtreeOf(P, n, added) ==
  \E i \in 1..Len(added) : n = added[i] \/ isDescendant(P, n, added[i])

\* C12: with the master switch on, the observer's callback runs a subtree
\* scan on every added node of every record of the batch, on exactly these
\* nodes and never on the whole document; records without added nodes
\* cause no scan, and a batch without added nodes changes no text.
C12_AddedNodesScanned ==
  [][observes /\ truthy(extensionEnabled)
     => /\ last'.calls = scansOf(addedNodesOf(mutations))
        /\ \A i \in 1..Len(last'.processed) :
             inSubtreeOf(parentNode, last'.processed[i], addedNodesOf(mutations))
        /\ (addedNodesOf(mutations) = <<>> => nodeValue' = nodeValue)]_vars

\* The store holds an enabled rule and does not hold the switch off.
storeActive ==
  /\ storeEnabled # Some(FALSE)
  /\ storeWordMap # None
  /\ enabledRules(storeWordMap[1]) # {}

\* C13: no content is missed around the initial load. With the switch on
\* and an enabled rule in the store, once the load has completed and no
\* mutation record is pending, every text node of the document outside
\* the exclusion zones has been given to processNode since it was
\* inserted, whether it was there before the load or came after it, and
\* also when there was no body yet when the load completed.
C13_NoContentMissed ==
  (storeActive /\ loaded /\ mutations = <<>> /\ changeQueue = <<>>)
    => \A n \in TextNodes :
         (isConnected(parentNode, body, n) /\ ~inExclusionZone(parentNode, n)) => n \in seen

-----------------------------------------------------------------------------
(* Timeouts *)

\* What the handler of the step that is taken leaves when no clock runs
\* out in it.
inTime ==
  IF last'.step = "startup"
  THEN startup(Engine, parentNode, body, nodeValue, stored, noClock)
  ELSE IF last'.step = "onChanged"
  THEN onChanged(Engine, parentNode, body, nodeValue, Head(changeQueue).changes,
                 Head(changeQueue).area, noClock)
  ELSE [E |-> Engine, R |-> observerCallback(Engine, parentNode, nodeValue, mutations, noClock)]

\* C14: timeout containment. In a handler run in which the time budget ran
\* out on some node, the timeout is not thrown out of processNode, the
\* switch and the compiled state are what the handler leaves without the
\* timeout, the scan goes on to the same nodes as without the timeout, and
\* every node on which the budget did not run out gets the text it gets
\* without the timeout. A later batch is handled by the same step.
C14_TimeoutContained ==
  [][last'.warned # {}
     => /\ last'.threw = inTime.R.threw
        /\ Engine' = inTime.E
        /\ last'.processed = inTime.R.processed
        /\ \A n \in TextNodes \ last'.warned : nodeValue'[n] = inTime.R.nodeValue[n]]_vars

\* The first pass at startup gave up t1 on a timeout, went on to t3 and
\* replaced its text.
C14_Witness ==
  /\ last.step = "startup"
  /\ last.warned = {"t1"}
  /\ last.processed = <<"t1", "t3">>
  /\ "t3" \in last.written
  /\ ~last.threw

\* The step gave node n up in the case-insensitive pass after the
\* case-sensitive pass had changed its text.
gaveUpSecondPass(n) ==
  /\ \E i \in 1..Len(last'.gaveUp) :
       last'.gaveUp[i] = [node |-> n, pass |-> "insensitive"]
  /\ sensitivePass(Engine', n, nodeValue[n]).text # nodeValue[n]

\* C15: partial application on timeout. When the time budget runs out in
\* the case-insensitive pass after the case-sensitive pass changed the
\* node's text, the node is left with the text the case-sensitive pass
\* made.
C15_PartialApplication ==
  [][\A n \in TextNodes :
       gaveUpSecondPass(n) => nodeValue'[n] = sensitivePass(Engine', n, nodeValue[n]).text]_vars

\* C15 as the code has it: in that case the node is not assigned and keeps
\* the text it had before it was processed; what the case-sensitive pass
\* replaced is dropped.
C15_NothingApplied ==
  [][\A n \in TextNodes :
       gaveUpSecondPass(n) => nodeValue'[n] = nodeValue[n] /\ n \notin last'.written]_vars

\* The load gave t1 up in the case-insensitive pass; the case-sensitive
\* pass changes the text t1 has.
C15_Witness ==
  /\ last.step = "startup"
  /\ last.gaveUp = <<[node |-> "t1", pass |-> "insensitive"]>>
  /\ sensitivePass(Engine, "t1", nodeValue["t1"]).text # nodeValue["t1"]

\* C16: silent degradation. A text node that a step gave up on a timeout,
\* in whichever pass, has after the step exactly the text it had before
\* the step, and was not assigned.
C16_SkippedKeepsText ==
  [][\A n \in last'.warned : nodeValue'[n] = nodeValue[n] /\ n \notin last'.written]_vars

\* The load gave t1 up at the first match of the case-sensitive pass.
C16_Witness ==
  /\ last.step = "startup"
  /\ last.warned = {"t1"}
  /\ last.gaveUp = <<[node |-> "t1", pass |-> "sensitive"]>>
  /\ sensitivePass(Engine, "t1", nodeValue["t1"]).calls > 0
  /\ nodeValue["t1"] # sensitivePass(Engine, "t1", nodeValue["t1"]).text

-----------------------------------------------------------------------------
(* Subtree scans and whole-document scans *)

\* A whole-document scan made in place of the observer's callback, with
\* the same globals, on the same page, no clock running out.
wholeScan == processDocument(Engine, parentNode, body, untouched(nodeValue), noClock)

\* C17: incremental scan equivalence. When the observer's callback scans
\* the added nodes of a batch and no clock runs out, every text node of the
\* added subtrees is assigned if and only if a whole-document scan with the
\* same compiled state assigns it, and gets the same text.
C17_IncrementalEquivalence ==
  [][observes /\ truthy(extensionEnabled) /\ last'.warned = {}
     => \A n \in TextNodes :
          inSubtreeOf(parentNode, n, addedNodesOf(mutations))
            => /\ nodeValue'[n] = wholeScan.nodeValue[n]
               /\ n \in last'.written <=> n \in wholeScan.written]_vars

-----------------------------------------------------------------------------
(* Writes to the document *)

\* The nodes the step processed to the end.
finished == {last'.processed[i] : i \in 1..Len(last'.processed)} \ last'.warned

\* One of the two passes changes the text it is applied to, the second
\* being applied to what the first made of the node's text.
aPassChanges(E, n, text) ==
  \/ sensitivePass(E, n, text).text # text
  \/ insensitivePass(E, n, sensitivePass(E, n, text).text).text
       # sensitivePass(E, n, text).text

\* C18: write only on change. A step assigns a node's nodeValue only when
\* the text the two passes made differs from the text the node had, and
\* a node that is not assigned keeps its text.
C18_WriteOnlyOnChange ==
  [][\A n \in TextNodes :
       /\ n \in last'.written => nodeValue'[n] # nodeValue[n]
       /\ n \notin last'.written => nodeValue'[n] = nodeValue[n]]_vars

\* C18 as the code has it: a node is assigned exactly when it was processed
\* to the end and one of the two passes changed the text it was applied
\* to, and a node that is not assigned keeps its text.
C18_WriteWhenAPassChanged ==
  [][\A n \in TextNodes :
       /\ n \in last'.written <=> (n \in finished /\ aPassChanges(Engine', n, nodeValue[n]))
       /\ n \notin last'.written => nodeValue'[n] = nodeValue[n]]_vars

\* The load assigned t1 the text it already had: the case-insensitive pass
\* undid what the case-sensitive pass had made of it.
C18_Witness ==
  /\ last.step = "startup"
  /\ "t1" \in last.written
  /\ Len(last.scanned) = 2
  /\ last.scanned[1].text = nodeValue["t1"]
  /\ last.scanned[2].text # nodeValue["t1"]

\* A step of one of the engine's handlers: the startup callback, the
\* listener, the observer's callback.
engineStep == last'.step \in {"startup", "onChanged", "observer"}

\* C19: frame of the engine. A step of an engine handler changes nothing
\* outside the engine but the nodeValue of text nodes: the tree (every
\* node's parent, the body) stays as it is, and the store's rule set and
\* master switch are not written. Tag names and contenteditable attributes
\* are fixed per node: no handler has a statement that assigns them.
C19_EngineFrame ==
  [][engineStep
     => /\ parentNode' = parentNode
        /\ body' = body
        /\ storeWordMap' = storeWordMap
        /\ storeEnabled' = storeEnabled
        /\ writes' = writes]_vars

\* The listener handled the removal of the rule set from the store and a
\* handler has assigned text: the store still has no rule set.
C19_Witness ==
  /\ last.step = "onChanged"
  /\ last.calls # <<>>
  /\ last.calls[1] = <<"updateRegexes", "wordMap">>
  /\ storeWordMap = None
  /\ writes >= 1
  /\ \E n \in TextNodes : nodeValue[n] # pageText[n]

-----------------------------------------------------------------------------
(* No rule set *)

\* No rule set, an empty one, or one whose rules are all disabled.
blank(w) == w = None \/ enabledRules(w[1]) = {}

\* The step is a startup that finds such a rule set in the store, a
\* notification that brings one, or a scan made while such a rule set is
\* the one that was compiled last.
blankInput ==
  \/ last'.step = "startup" /\ blank(storeWordMap)
  \/ /\ last'.step = "onChanged"
     /\ Head(changeQueue).area = "sync"
     /\ Head(changeQueue).changes.wordMap # None
     /\ blank(Head(changeQueue).changes.wordMap[1].newValue)
  \/ last'.step \in {"onChanged", "observer"} /\ blank(snapshot')

\* C20: no rule set behaves as an empty rule set. After a startup that
\* finds no rule set, an empty one or only disabled rules in the store,
\* after a notification that brings such a rule set, and in every scan made
\* while such a rule set is the compiled one, both matchers are absent, no
\* text node is changed and no error is thrown.
C20_NoRuleSetIsEmpty ==
  [][blankInput
     => /\ sensitiveRegex' = None
        /\ insensitiveRegex' = None
        /\ nodeValue' = nodeValue
        /\ ~last'.threw]_vars

-----------------------------------------------------------------------------
(* The settings page (manage.js): the rules table, add, edit, rename,      *)
(* remove, export and import. Each operation is one step: the read of the  *)
(* store, the validation, the write and the table update that follow it.   *)
(* Reads of the store succeed; a write may fail (chrome.runtime.lastError). *)

MAX_RULES == 255
MAX_PATTERN_LENGTH == 255
SYNC_QUOTA_BYTES == 102400
QUOTA_BYTES_PER_ITEM == 8192

\* data.wordMap || {}
storeMap == IF storeWordMap = None THEN <<>> ELSE storeWordMap[1]

\* wordMap[word], as a test and as a value.
has(wordMap, word) == \E i \in 1..Len(wordMap) : wordMap[i].word = word

dataOf(wordMap, word) == wordMap[CHOOSE i \in 1..Len(wordMap) : wordMap[i].word = word].data

\* delete wordMap[word]
without(wordMap, word) ==
  LET kept(entry) == entry.word # word IN SelectSeq(wordMap, kept)

\* wordMap[word] = data: a key the object has keeps its place, a new key
\* comes last.
assign(wordMap, word, data) ==
  IF has(wordMap, word)
  THEN [i \in 1..Len(wordMap) |->
          IF wordMap[i].word = word THEN [word |-> word, data |-> data] ELSE wordMap[i]]
  ELSE Append(wordMap, [word |-> word, data |-> data])

\* { ...first, ...second }
RECURSIVE spread(_, _)
spread(first, second) ==
  IF second = <<>> THEN first
  ELSE spread(assign(first, Head(second).word, Head(second).data), Tail(second))

\* !text || !text.trim()
isBlank(text) == \A i \in 1..Len(text) : text[i] = " "

\* A serializer that also leaves out the properties that are false.
dataMembersTruthy(data) ==
  <<[name |-> "replacement", value |-> data.replacement]>>
  \o (IF data.caseSensitive # Some(TRUE) THEN <<>>
      ELSE <<[name |-> "caseSensitive", value |-> TRUE]>>)
  \o (IF data.enabled # Some(TRUE) THEN <<>>
      ELSE <<[name |-> "enabled", value |-> TRUE]>>)

\* JSON.stringify of a rule's data and of a rule set: an object is the
\* sequence of its members, a property that is undefined has no member.
dataMembers(data) ==
  <<[name |-> "replacement", value |-> data.replacement]>>
  \o (IF data.caseSensitive = None THEN <<>>
      ELSE <<[name |-> "caseSensitive", value |-> data.caseSensitive[1]]>>)
  \o (IF data.enabled = None THEN <<>>
      ELSE <<[name |-> "enabled", value |-> data.enabled[1]]>>)

stringify(wordMap) ==
  [i \in 1..Len(wordMap) |-> [name |-> wordMap[i].word, value |-> dataMembers(wordMap[i].data)]]

\* The number of characters of a JSON string: the quotes, the characters,
\* one more for each quote and backslash.
stringSize(text) ==
  Len(text) + 2 + Cardinality({i \in 1..Len(text) : text[i] \in {"\"", "\\"}})

propertySize(member) ==
  CASE member.name = "replacement" -> 14 + stringSize(member.value)
    [] member.name = "caseSensitive" -> 16 + (IF member.value THEN 4 ELSE 5)
    [] member.name = "enabled" -> 10 + (IF member.value THEN 4 ELSE 5)

\* The size of the members lo..hi of an object, and of an object with its
\* braces and commas: a rule's key, colon and data, or a property of a data.
RECURSIVE sizeBetween(_, _, _, _)
sizeOf(members, inner) ==
  2 + sizeBetween(members, inner, 1, Len(members))
    + (IF Len(members) > 1 THEN Len(members) - 1 ELSE 0)

memberSize(member, inner) ==
  IF inner THEN propertySize(member)
  ELSE stringSize(member.name) + 1 + sizeOf(member.value, TRUE)

sizeBetween(members, inner, lo, hi) ==
  IF lo > hi THEN 0
  ELSE IF lo = hi THEN memberSize(members[lo], inner)
  ELSE sizeBetween(members, inner, lo, (lo + hi) \div 2)
       + sizeBetween(members, inner, ((lo + hi) \div 2) + 1, hi)

\* new Blob([JSON.stringify({ wordMap })]).size, every character one byte.
estimateStorageSize(wordMap) == 11 + sizeOf(stringify(wordMap), FALSE) + 1

\* validateStorageQuota(wordMap) returns a message.
validateStorageQuota(wordMap) ==
  \/ estimateStorageSize(wordMap) > SYNC_QUOTA_BYTES
  \/ estimateStorageSize(wordMap) > QUOTA_BYTES_PER_ITEM

\* JSON.parse of a rules object, read as a rule set: a member's properties
\* by name, a missing one undefined; a repeated name keeps the last value.
propertyOf(members, name) ==
  LET at == {i \in 1..Len(members) : members[i].name = name}
  IN IF at = {} THEN None ELSE Some(members[CHOOSE i \in at : \A j \in at : j <= i].value)

parseData(members) ==
  [replacement |-> propertyOf(members, "replacement")[1],
   caseSensitive |-> propertyOf(members, "caseSensitive"),
   enabled |-> propertyOf(members, "enabled")]

RECURSIVE parseRules(_, _)
parseRules(members, wordMap) ==
  IF members = <<>> THEN wordMap
  ELSE parseRules(Tail(members),
                  assign(wordMap, Head(members).name, parseData(Head(members).value)))

\* addRowToTable(originalText, replacement, caseSensitive, enabled): the
\* row's handlers keep originalText, its inputs show the four values.
addRowToTable(originalText, replacement, caseSensitive, enabled) ==
  [originalText |-> originalText,
   shown |-> [originalText |-> originalText, replacement |-> replacement,
              caseSensitive |-> caseSensitive, enabled |-> enabled]]

\* loadWordMap's callback: the table rebuilt from the rule set read.
loadWordMap(wordMap) ==
  [i \in 1..Len(wordMap) |->
     addRowToTable(wordMap[i].word, wordMap[i].data.replacement,
                   truthy(wordMap[i].data.caseSensitive),
                   wordMap[i].data.enabled # Some(FALSE))]

\* How the validation of an operation ends: the rule set to write when it
\* passes, whether loadWordMap is called when it does not.
refused(reason, reload) == [outcome |-> "rejected", reason |-> reason, reload |-> reload, wordMap |-> <<>>]
dropped(reason) == [outcome |-> "ignored", reason |-> reason, reload |-> FALSE, wordMap |-> <<>>]
passed(wordMap) == [outcome |-> "save", reason |-> "none", reload |-> FALSE, wordMap |-> wordMap]

\* The quota check before the write, of updateReplacement and of
\* addReplacement and importRules.
withinQuota(wordMap, reload) ==
  IF validateStorageQuota(wordMap) THEN refused("quota", reload) ELSE passed(wordMap)

\* wordMap[originalText][field] = newValue
withField(data, field, newValue) ==
  CASE field = "replacement" -> [data EXCEPT !.replacement = newValue]
    [] field = "caseSensitive" -> [data EXCEPT !.caseSensitive = Some(newValue)]
    [] field = "enabled" -> [data EXCEPT !.enabled = Some(newValue)]

updateReplacement(wordMap, originalText, field, newValue) ==
  IF field = "originalText" /\ isBlank(newValue) THEN refused("empty", TRUE)
  ELSE IF field \in {"originalText", "replacement"} /\ Len(newValue) > MAX_PATTERN_LENGTH
    THEN refused("long", TRUE)
  ELSE IF ~has(wordMap, originalText) THEN dropped("missing")
  ELSE IF field = "originalText" THEN
    IF newValue = <<>> THEN refused("empty", TRUE)
    ELSE IF has(wordMap, newValue) /\ newValue # originalText THEN refused("duplicate", TRUE)
    ELSE IF toLowerCase(newValue) # toLowerCase(originalText)
      THEN withinQuota(assign(without(wordMap, originalText), newValue,
                              dataOf(wordMap, originalText)), TRUE)
    ELSE IF newValue = originalText THEN dropped("same")
    ELSE refused("caseOnly", TRUE)
  ELSE withinQuota(assign(wordMap, originalText,
                          withField(dataOf(wordMap, originalText), field, newValue)), TRUE)

\* addReplacement with no rule limit.
addReplacementUnlimited(wordMap, newOriginal, newReplacement, newCaseSensitive) ==
  IF isBlank(newOriginal) THEN refused("empty", FALSE)
  ELSE IF Len(newOriginal) > MAX_PATTERN_LENGTH THEN refused("long", FALSE)
  ELSE IF Len(newReplacement) > MAX_PATTERN_LENGTH THEN refused("long", FALSE)
  ELSE IF has(wordMap, newOriginal) THEN refused("duplicate", FALSE)
  ELSE withinQuota(assign(wordMap, newOriginal,
                          [replacement |-> newReplacement,
                           caseSensitive |-> Some(newCaseSensitive),
                           enabled |-> Some(TRUE)]), FALSE)

addReplacement(wordMap, newOriginal, newReplacement, newCaseSensitive) ==
  IF isBlank(newOriginal) THEN refused("empty", FALSE)
  ELSE IF Len(newOriginal) > MAX_PATTERN_LENGTH THEN refused("long", FALSE)
  ELSE IF Len(newReplacement) > MAX_PATTERN_LENGTH THEN refused("long", FALSE)
  ELSE IF Len(wordMap) >= MAX_RULES THEN refused("limit", FALSE)
  ELSE IF has(wordMap, newOriginal) THEN refused("duplicate", FALSE)
  ELSE withinQuota(assign(wordMap, newOriginal,
                          [replacement |-> newReplacement,
                           caseSensitive |-> Some(newCaseSensitive),
                           enabled |-> Some(TRUE)]), FALSE)

\* removeReplacement: the rule set without the key is written, whether or
\* not the key was there.
removeReplacement(wordMap, originalText) == passed(without(wordMap, originalText))

\* A file a user picks: its name ends in .json or not, its text parses or
\* not, the parsed value has a rules object or not.
file(rules) == [json |-> TRUE, content |-> Some([rules |-> rules])]

\* exportRules: the download, None when there is no rule to export.
exportRules(wordMap) ==
  IF Len(wordMap) = 0 THEN None ELSE Some(file(Some(stringify(wordMap))))

\* The rule limit and the quota check of importRules.
importChecked(finalRules) ==
  IF Len(finalRules) > MAX_RULES THEN refused("limit", FALSE)
  ELSE withinQuota(finalRules, FALSE)

\* importRules merging where the stored rule wins a key conflict.
importRulesKeeping(data, picked, shouldReplace) ==
  IF ~picked.json THEN refused("type", FALSE)
  ELSE IF picked.content = None THEN refused("syntax", FALSE)
  ELSE IF picked.content[1].rules = None THEN refused("format", FALSE)
  ELSE IF Len(parseRules(picked.content[1].rules[1], <<>>)) = 0 THEN refused("none", FALSE)
  ELSE importChecked(IF shouldReplace THEN parseRules(picked.content[1].rules[1], <<>>)
                     ELSE spread(parseRules(picked.content[1].rules[1], <<>>),
                                 IF data = None THEN <<>> ELSE data[1]))

\* importRules(file) with the answer to its confirm(); data.wordMap is the
\* stored value, undefined when the store has none.
importRules(data, picked, shouldReplace) ==
  IF ~picked.json THEN refused("type", FALSE)
  ELSE IF picked.content = None THEN refused("syntax", FALSE)
  ELSE IF picked.content[1].rules = None THEN refused("format", FALSE)
  ELSE IF Len(parseRules(picked.content[1].rules[1], <<>>)) = 0 THEN refused("none", FALSE)
  ELSE importChecked(IF shouldReplace THEN parseRules(picked.content[1].rules[1], <<>>)
                     ELSE spread(IF data = None THEN <<>> ELSE data[1],
                                 parseRules(picked.content[1].rules[1], <<>>)))

-----------------------------------------------------------------------------
(* The settings page at work *)

\* A text of n characters.
textOf(n) == [i \in 1..n |-> "x"]

\* What the user types as an original text: nothing, a blank, three words
\* of which two differ in case only, a text one character too long.
KeyInputs == {<<>>, <<" ">>, <<"a">>, <<"A">>, <<"b">>, textOf(MAX_PATTERN_LENGTH + 1)}

\* What the user types as a replacement: nothing, a word, the longest text
\* allowed and one a character longer.
ReplacementInputs ==
  {<<>>, <<"X">>, textOf(MAX_PATTERN_LENGTH), textOf(MAX_PATTERN_LENGTH + 1)}

\* The rule set a large import left: rules with a two-character key and a
\* replacement only, one rule short of the limit and some three hundred
\* bytes short of the quota.
fillerKey(i) ==
  LET chars == <<"a", "b", "x", "y", "z", "0", "_", "A", "B", "X", "Y", "Z", ".", "!", "?", "+">>
  IN <<chars[((i - 1) \div 16) + 1], chars[((i - 1) % 16) + 1]>>

filler(n) ==
  [i \in 1..n |-> [word |-> fillerKey(i),
                   data |-> [replacement |-> textOf(7),
                             caseSensitive |-> None, enabled |-> None]]]

\* The operations made on the settings page in one run.
MaxRequests == 3

\* The files the user imports: one that is no .json file, one that does not
\* parse, one without rules, one with no rule, a rule set of two rules, one
\* with an empty key, one with a key one character too long.
ImportFiles ==
  { [json |-> FALSE, content |-> None],
    [json |-> TRUE, content |-> None],
    file(None),
    file(Some(<<>>)),
    file(Some(stringify(<< rule(<<"a">>, <<>>, Some(TRUE), Some(FALSE)),
                           rule(<<"b">>, <<"X">>, Some(FALSE), Some(TRUE)) >>))),
    file(Some(stringify(<< rule(<<>>, <<"X">>, Some(FALSE), Some(TRUE)) >>))),
    file(Some(stringify(<< rule(textOf(MAX_PATTERN_LENGTH + 1), <<"X">>, Some(FALSE), Some(TRUE)) >>))) }

\* The settings page is open and its table loaded, no tab holds the content
\* script. The store holds what stores says.
InitSettings(stores) ==
  /\ storeWordMap \in stores
  /\ storeEnabled = Some(TRUE)
  /\ changeQueue = <<>>
  /\ writes = 0
  /\ extensionEnabled = Some(TRUE)
  /\ sensitiveRegex = None
  /\ insensitiveRegex = None
  /\ wordMapCache = <<>>
  /\ wordMapCacheLower = <<>>
  /\ loaded = FALSE
  /\ observing = FALSE
  /\ body = "body"
  /\ parentNode = [n \in Nodes |-> homeOf(n)]
  /\ nodeValue = pageText
  /\ mutations = <<>>
  /\ pageOps = 0
  /\ snapshot = None
  /\ completed = {}
  /\ seen = {}
  /\ last = idle("init")
  /\ injected = FALSE
  /\ rows = loadWordMap(storeMap)
  /\ download = None
  /\ request = noRequest
  /\ requests = 0
  /\ reads = <<>>

\* The write of an operation whose validation ended as result: made when
\* the validation passed, done when the write has no error. After
\* chrome.storage.sync.set({ wordMap }) without an error the store holds
\* the rule set and a registered listener gets the change.
written(op, mode, result, ok) ==
  /\ requests < MaxRequests
  /\ requests' = requests + 1
  /\ storeWordMap' = IF result.outcome = "save" /\ ok THEN Some(result.wordMap) ELSE storeWordMap
  /\ changeQueue' = IF result.outcome = "save" /\ ok /\ injected /\ storeWordMap # Some(result.wordMap)
                    THEN Append(changeQueue,
                                change("sync", Some([newValue |-> Some(result.wordMap)]), None))
                    ELSE changeQueue
  /\ request' = [op |-> op, mode |-> mode, reason |-> result.reason,
                 wrote |-> result.outcome = "save",
                 outcome |-> IF result.outcome # "save" THEN result.outcome
                             ELSE IF ok THEN "saved" ELSE "failed"]
  /\ last' = idle("settings")
  /\ UNCHANGED <<storeEnabled, writes, engineVars, pageVars, nodeValue, historyVars, injected>>

\* The change handler of an input of row r: the input shows newValue,
\* updateReplacement runs with the originalText the row was made with. The
\* table is reloaded when the validation calls loadWordMap and when the
\* write fails.
edited(r, field, newValue, result, ok) ==
  /\ written(field, "none", result, ok)
  /\ rows' = IF result.reload \/ (result.outcome = "save" /\ ~ok) THEN loadWordMap(storeMap)
             ELSE [rows EXCEPT ![r].shown[field] = newValue]
  /\ UNCHANGED <<download, reads>>

\* The rows the user works on: those of the large imported rule set are
\* left alone.
Operated == {r \in 1..Len(rows) : Len(rows[r].originalText) # 2}

Rename(r, newValue, ok) ==
  edited(r, "originalText", newValue,
         updateReplacement(storeMap, rows[r].originalText, "originalText", newValue), ok)

EditReplacement(r, newValue, ok) ==
  edited(r, "replacement", newValue,
         updateReplacement(storeMap, rows[r].originalText, "replacement", newValue), ok)

ToggleCase(r, ok) ==
  edited(r, "caseSensitive", ~rows[r].shown.caseSensitive,
         updateReplacement(storeMap, rows[r].originalText, "caseSensitive",
                           ~rows[r].shown.caseSensitive), ok)

ToggleEnabled(r, ok) ==
  edited(r, "enabled", ~rows[r].shown.enabled,
         updateReplacement(storeMap, rows[r].originalText, "enabled",
                           ~rows[r].shown.enabled), ok)

\* The Remove button of row r: the table is reloaded whether the write
\* fails or not.
Remove(r, ok) ==
  /\ written("remove", "none", removeReplacement(storeMap, rows[r].originalText), ok)
  /\ rows' = loadWordMap(IF ok THEN removeReplacement(storeMap, rows[r].originalText).wordMap
                         ELSE storeMap)
  /\ UNCHANGED <<download, reads>>

\* The Add Rule form submitted: a row is added when the write is done.
Add(newOriginal, newReplacement, newCaseSensitive, ok) ==
  /\ written("add", "none",
             addReplacement(storeMap, newOriginal, newReplacement, newCaseSensitive), ok)
  /\ rows' = IF request'.outcome = "saved"
             THEN Append(rows, addRowToTable(newOriginal, newReplacement, newCaseSensitive, TRUE))
             ELSE rows
  /\ UNCHANGED <<download, reads>>

\* A file picked for import and the confirm() answered: the table is
\* reloaded when the write is done.
Import(picked, shouldReplace, ok) ==
  /\ written("import", IF shouldReplace THEN "replace" ELSE "merge",
             importRules(storeWordMap, picked, shouldReplace), ok)
  /\ rows' = IF request'.outcome = "saved" THEN loadWordMap(storeWordMap'[1]) ELSE rows
  /\ UNCHANGED <<download, reads>>

NextM ==
  \/ \E r \in Operated, newValue \in KeyInputs, ok \in BOOLEAN : Rename(r, newValue, ok)
  \/ \E r \in Operated, newValue \in ReplacementInputs, ok \in BOOLEAN : EditReplacement(r, newValue, ok)
  \/ \E r \in Operated, ok \in BOOLEAN : ToggleCase(r, ok)
  \/ \E r \in Operated, ok \in BOOLEAN : ToggleEnabled(r, ok)
  \/ \E r \in Operated, ok \in BOOLEAN : Remove(r, ok)
  \/ \E newOriginal \in KeyInputs, newReplacement \in ReplacementInputs,
        newCaseSensitive \in BOOLEAN, ok \in BOOLEAN :
       Add(newOriginal, newReplacement, newCaseSensitive, ok)
  \/ \E picked \in ImportFiles, shouldReplace \in BOOLEAN, ok \in BOOLEAN :
       Import(picked, shouldReplace, ok)

\* The store holds nothing yet, one of the rule sets of RuleSets, or a large
\* imported rule set.
SpecM ==
  /\ InitSettings({None} \cup {Some(w) : w \in RuleSets} \cup {Some(filler(MAX_RULES - 1))})
  /\ [][NextM]_vars

\* The settings page opened for the first time: the store holds nothing.
SpecE == InitSettings({None}) /\ [][NextM]_vars

-----------------------------------------------------------------------------
(* Backup: export and import of the exported file *)

\* The Export button: the rule set read from the store is downloaded as a
\* file, unless there is no rule.
Export ==
  /\ requests < MaxRequests
  /\ requests' = requests + 1
  /\ download' = IF exportRules(storeMap) = None THEN download ELSE exportRules(storeMap)
  /\ request' = [op |-> "export", mode |-> "none", wrote |-> FALSE,
                 reason |-> IF exportRules(storeMap) = None THEN "empty" ELSE "none",
                 outcome |-> IF exportRules(storeMap) = None THEN "rejected" ELSE "saved"]
  /\ last' = idle("settings")
  /\ UNCHANGED <<storeVars, engineVars, pageVars, nodeValue, historyVars, injected, rows, reads>>

\* The settings page over a store that holds nothing or a rule set of
\* RuleSets: rules are added, edited, disabled and removed, the rule set is
\* exported and the exported file picked for import.
NextB ==
  \/ Export
  \/ \E shouldReplace \in BOOLEAN, ok \in BOOLEAN :
       download # None /\ Import(download[1], shouldReplace, ok)
  \/ \E newOriginal \in {<<"a">>, <<"A">>}, newCaseSensitive \in BOOLEAN :
       Add(newOriginal, <<"X">>, newCaseSensitive, TRUE)
  \/ \E r \in Operated : EditReplacement(r, <<>>, TRUE)
  \/ \E r \in Operated : ToggleEnabled(r, TRUE)
  \/ \E r \in Operated : Remove(r, TRUE)

SpecB == InitSettings({None} \cup {Some(w) : w \in RuleSets}) /\ [][NextB]_vars

-----------------------------------------------------------------------------
(* Settings operations started before an earlier one has written *)

\* What the get callback of operation o computes from the data it was
\* called with: the validation and the rule set to write.
resultOf(o) ==
  CASE o.kind = "add" ->
         addReplacement(IF o.data = None THEN <<>> ELSE o.data[1], o.key, o.value, o.flag)
    [] o.kind = "remove" ->
         removeReplacement(IF o.data = None THEN <<>> ELSE o.data[1], o.key)
    [] o.kind = "import" -> importRules(o.data, o.picked, o.flag)
    [] OTHER ->
         updateReplacement(IF o.data = None THEN <<>> ELSE o.data[1], o.key, o.kind, o.value)

\* An operation is started: chrome.storage.sync.get('wordMap', ...) reads
\* the store. For the change handler of an input of row r the input shows
\* the new value already; r is 0 for the other operations.
Ask(o, r) ==
  /\ requests + Len(reads) < MaxRequests
  /\ reads' = Append(reads, [o EXCEPT !.data = storeWordMap])
  /\ rows' = IF r = 0 THEN rows ELSE [rows EXCEPT ![r].shown[o.kind] = o.value]
  /\ last' = idle("settings")
  /\ UNCHANGED <<storeVars, engineVars, pageVars, nodeValue, historyVars,
                 injected, download, request, requests>>

\* The oldest started operation goes on from the data it read:
\* chrome.storage.sync.set({ wordMap }) writes the rule set made from that
\* data, and the table is brought up to date as the operation's callback
\* does.
Answer(ok) ==
  /\ reads # <<>>
  /\ reads' = Tail(reads)
  /\ written(Head(reads).kind,
             IF Head(reads).kind # "import" THEN "none"
             ELSE IF Head(reads).flag THEN "replace" ELSE "merge",
             resultOf(Head(reads)), ok)
  /\ rows' = CASE Head(reads).kind = "add" ->
                    IF request'.outcome = "saved"
                    THEN Append(rows, addRowToTable(Head(reads).key, Head(reads).value,
                                                    Head(reads).flag, TRUE))
                    ELSE rows
               [] Head(reads).kind = "remove" ->
                    loadWordMap(IF storeWordMap' = None THEN <<>> ELSE storeWordMap'[1])
               [] Head(reads).kind = "import" ->
                    IF request'.outcome = "saved" THEN loadWordMap(storeWordMap'[1]) ELSE rows
               [] OTHER ->
                    IF resultOf(Head(reads)).reload \/ request'.outcome = "failed"
                    THEN loadWordMap(storeMap)
                    ELSE rows
  /\ UNCHANGED download

\* The user does not wait for an operation to be done before starting the
\* next: rules are added, renamed, edited and removed and files imported
\* while earlier operations are under way.
NextT ==
  \/ \E newOriginal \in {<<"a">>, <<"b">>}, newCaseSensitive \in BOOLEAN :
       Ask([kind |-> "add", key |-> newOriginal, value |-> <<"X">>, flag |-> newCaseSensitive,
            picked |-> [json |-> FALSE, content |-> None], data |-> None], 0)
  \/ \E r \in Operated, field \in {"originalText", "replacement"}, newValue \in {<<"b">>, <<"Y">>} :
       Ask([kind |-> field, key |-> rows[r].originalText, value |-> newValue, flag |-> FALSE,
            picked |-> [json |-> FALSE, content |-> None], data |-> None], r)
  \/ \E r \in Operated :
       Ask([kind |-> "remove", key |-> rows[r].originalText, value |-> <<>>, flag |-> FALSE,
            picked |-> [json |-> FALSE, content |-> None], data |-> None], 0)
  \/ \E picked \in ImportFiles, shouldReplace \in BOOLEAN :
       Ask([kind |-> "import", key |-> <<>>, value |-> <<>>, flag |-> shouldReplace,
            picked |-> picked, data |-> None], 0)
  \/ \E ok \in BOOLEAN : Answer(ok)

SpecT == InitSettings({None} \cup {Some(w) : w \in RuleSets}) /\ [][NextT]_vars

-----------------------------------------------------------------------------
(* Properties: the settings page *)

\* What a table shows: the rules its rows display.
shownBy(table) == {table[i].shown : i \in 1..Len(table)}

\* C21: after every settings-page operation (add, rename, edit of the
\* replacement, toggle of case or enabled, remove, import) the table shows
\* the stored rule set: every edit made through a row, also one made after
\* the row's rule was renamed, has reached the stored rule the row displays.
C21_TableAgreesWithStore == shownBy(rows) = shownBy(loadWordMap(storeMap))

\* The keys of a rule set and of a picked file's rules.
keysOf(wordMap) == {wordMap[i].word : i \in 1..Len(wordMap)}

namesIn(picked) ==
  IF picked.content = None \/ picked.content[1].rules = None THEN {}
  ELSE {picked.content[1].rules[1][i].name : i \in 1..Len(picked.content[1].rules[1])}

rejects == request'.outcome = "rejected" /\ ~request'.wrote /\ storeWordMap' = storeWordMap

\* C22: the store never holds more than 255 rules; an add made when it
\* holds 255 is rejected, and so is an import whose result (the imported
\* rules, merged with the stored ones unless they replace them) would be
\* more than 255 rules.
C22_RuleLimit ==
  /\ [](Len(storeMap) <= MAX_RULES)
  /\ [][/\ request'.op = "add" /\ Len(storeMap) = MAX_RULES => rejects
        /\ request'.op = "import" =>
             \A picked \in ImportFiles, shouldReplace \in BOOLEAN, ok \in BOOLEAN :
               /\ Cardinality(namesIn(picked)
                              \cup (IF shouldReplace THEN {} ELSE keysOf(storeMap))) > MAX_RULES
               /\ Import(picked, shouldReplace, ok)
               => rejects]_vars

\* An add was rejected for the limit alone: the store holds 255 rules.
C22_Witness ==
  /\ request.op = "add"
  /\ request.reason = "limit"
  /\ request.outcome = "rejected"
  /\ Len(storeMap) = MAX_RULES

\* C23: every key and every replacement of the stored rule set is at most
\* 255 characters long, whatever was added, edited, renamed or imported.
C23_PatternLengthLimit ==
  \A i \in 1..Len(storeMap) :
    /\ Len(storeMap[i].word) <= MAX_PATTERN_LENGTH
    /\ Len(storeMap[i].data.replacement) <= MAX_PATTERN_LENGTH

\* C24: no rule of the stored rule set has the empty string as its key,
\* whatever was added, renamed or imported.
C24_KeysNonEmpty == \A i \in 1..Len(storeMap) : storeMap[i].word # <<>>

\* Two keys that differ by letter case only.
caseOnly(key, newValue) == newValue # key /\ toLowerCase(newValue) = toLowerCase(key)

\* C25: when the original text shown in a row is changed to a value that
\* differs from it by letter case only, nothing is written, the stored rule
\* set stays as it is and the table is reloaded from the store.
C25_CaseOnlyRenameRejected ==
  [][request'.op = "originalText" =>
       \A r \in Operated, newValue \in KeyInputs, ok \in BOOLEAN :
         /\ caseOnly(rows[r].shown.originalText, newValue)
         /\ Rename(r, newValue, ok)
         => /\ ~request'.wrote
            /\ storeWordMap' = storeWordMap
            /\ rows' = loadWordMap(storeMap)]_vars

\* What the validation is to reject: an original text that is empty or
\* blank, a text longer than 255 characters, a key another stored rule has,
\* an add to a full rule set, a rule set larger than the quota.
invalidText(text) == Len(text) > MAX_PATTERN_LENGTH
invalidKey(key) == isBlank(key) \/ invalidText(key)
overQuota(wordMap) == estimateStorageSize(wordMap) > QUOTA_BYTES_PER_ITEM

invalidAdd(newOriginal, newReplacement, newCaseSensitive) ==
  \/ invalidKey(newOriginal)
  \/ invalidText(newReplacement)
  \/ newOriginal \in keysOf(storeMap)
  \/ Len(storeMap) >= MAX_RULES
  \/ overQuota(Append(storeMap, rule(newOriginal, newReplacement,
                                     Some(newCaseSensitive), Some(TRUE))))

invalidRename(r, newValue) ==
  \/ invalidKey(newValue)
  \/ newValue \in keysOf(storeMap) \ {rows[r].shown.originalText}

invalidReplacement(r, newValue) ==
  \/ invalidText(newValue)
  \/ /\ has(storeMap, rows[r].shown.originalText)
     /\ overQuota(assign(storeMap, rows[r].shown.originalText,
                         withField(dataOf(storeMap, rows[r].shown.originalText),
                                   "replacement", newValue)))

invalidImport(picked, shouldReplace) ==
  /\ namesIn(picked) # {}
  /\ \/ Cardinality(namesIn(picked) \cup (IF shouldReplace THEN {} ELSE keysOf(storeMap)))
          > MAX_RULES
     \/ overQuota(IF shouldReplace THEN parseRules(picked.content[1].rules[1], <<>>)
                  ELSE spread(storeMap, parseRules(picked.content[1].rules[1], <<>>)))

noWrite == ~request'.wrote /\ storeWordMap' = storeWordMap

tableShowsStore == shownBy(rows') = shownBy(loadWordMap(storeMap'))

\* C26: an add, an edit, a rename or an import that the validation is to
\* reject issues no write and leaves the stored rule set as it is; after
\* such an edit or rename through a row, and after one whose write failed,
\* the table shows the stored rule set.
C26_RejectedLeavesStore ==
  [][/\ request'.op = "add" =>
          \A newOriginal \in KeyInputs, newReplacement \in ReplacementInputs,
             newCaseSensitive \in BOOLEAN, ok \in BOOLEAN :
            /\ invalidAdd(newOriginal, newReplacement, newCaseSensitive)
            /\ Add(newOriginal, newReplacement, newCaseSensitive, ok)
            => noWrite
     /\ request'.op = "originalText" =>
          \A r \in Operated, newValue \in KeyInputs, ok \in BOOLEAN :
            /\ invalidRename(r, newValue)
            /\ Rename(r, newValue, ok)
            => noWrite /\ tableShowsStore
     /\ request'.op = "replacement" =>
          \A r \in Operated, newValue \in ReplacementInputs, ok \in BOOLEAN :
            /\ invalidReplacement(r, newValue)
            /\ EditReplacement(r, newValue, ok)
            => noWrite /\ tableShowsStore
     /\ request'.op = "import" =>
          \A picked \in ImportFiles, shouldReplace \in BOOLEAN, ok \in BOOLEAN :
            /\ invalidImport(picked, shouldReplace)
            /\ Import(picked, shouldReplace, ok)
            => noWrite
     /\ request'.outcome = "failed" =>
          /\ storeWordMap' = storeWordMap
          /\ request'.op \in {"originalText", "replacement", "caseSensitive", "enabled"}
             => tableShowsStore]_vars

\* A rule set as the set of its rules, and the rules a picked file holds.
rulesIn(wordMap) == {<<wordMap[i].word, wordMap[i].data>> : i \in 1..Len(wordMap)}

rulesPicked(picked) ==
  {<<picked.content[1].rules[1][i].name, parseData(picked.content[1].rules[1][i].value)>> :
     i \in 1..Len(picked.content[1].rules[1])}

\* C27: after a successful import in replace mode the stored rule set is
\* exactly the imported rules; after one in merge mode it is the imported
\* rules, with their imported values, and the rules stored before whose key
\* is not in the import, unchanged.
C27_ImportSemantics ==
  [][request'.op = "import" /\ request'.outcome = "saved" =>
       \A picked \in ImportFiles, shouldReplace \in BOOLEAN :
         Import(picked, shouldReplace, TRUE) =>
           rulesIn(storeMap') =
             rulesPicked(picked)
             \cup (IF shouldReplace THEN {}
                   ELSE {kept \in rulesIn(storeMap) : kept[1] \notin namesIn(picked)})]_vars

\* A merge was saved: the store holds the imported rule a, which replaced
\* the stored one, the imported rule b and the rule A stored before.
C27_Witness ==
  /\ request.op = "import"
  /\ request.mode = "merge"
  /\ request.outcome = "saved"
  /\ keysOf(storeMap) = {<<"a">>, <<"b">>, <<"A">>}
  /\ dataOf(storeMap, <<"a">>) = [replacement |-> <<>>, caseSensitive |-> Some(TRUE),
                                  enabled |-> Some(FALSE)]

\* C28: when a non-empty stored rule set has been exported and the exported
\* file is then imported in replace mode, the stored rule set is the one
\* that was exported: the same keys with the same replacements, case and
\* enabled flags.
C28_BackupRoundTrip ==
  [][/\ request.op = "export"
     /\ request.outcome = "saved"
     /\ download # None
     /\ \E ok \in BOOLEAN : Import(download[1], TRUE, ok)
     => /\ storeMap' = storeMap
        /\ rulesIn(storeMap') = rulesIn(storeMap)]_vars

\* The exported file was imported in replace mode and saved; the rule set
\* has a disabled rule and a rule with no enabled flag.
C28_Witness ==
  /\ request.op = "import"
  /\ request.mode = "replace"
  /\ request.outcome = "saved"
  /\ download = exportRules(storeMap)
  /\ \E i \in 1..Len(storeMap) : storeMap[i].data.enabled = Some(FALSE)
  /\ \E i \in 1..Len(storeMap) : storeMap[i].data.enabled = None

-----------------------------------------------------------------------------
(* Properties: pass order and the match resolver *)

\* text.replace(regex, replaceCallback) with the tables the engine holds
\* after the step.
appliedAfter(regex, text) ==
  replaceSpans(text, matches(regex, text), 1, wordMapCache', wordMapCacheLower')

\* The replacements one pass of the step made on a node, in the order made.
RECURSIVE replacedBy(_, _, _)
replacedBy(replaced, node, pass) ==
  IF replaced = <<>> THEN <<>>
  ELSE (IF Head(replaced).node = node /\ Head(replaced).pass = pass THEN <<Head(replaced)>> ELSE <<>>)
       \o replacedBy(Tail(replaced), node, pass)

\* The text with the spans replaced, each once, the text between them kept.
RECURSIVE spliced(_, _, _)
spliced(text, made, from) ==
  IF made = <<>> THEN SubSeq(text, from, Len(text))
  ELSE SubSeq(text, from, Head(made).at - 1) \o Head(made).by \o spliced(text, Tail(made), Head(made).end)

\* The replacements were matched in the input, left to right, without
\* overlap, and the output is the input with just these spans replaced.
onePass(input, made, output) ==
  /\ \A i \in 1..Len(made) : made[i].text = input /\ made[i].at >= 1 /\ made[i].end <= Len(input) + 1
  /\ \A i \in 1..Len(made) : \A j \in 1..Len(made) : i < j => made[i].end <= made[j].at
  /\ output = spliced(input, made, 1)

passOrder(node, original, middle, final) ==
  /\ final = appliedAfter(insensitiveRegex', middle)
  /\ \A i \in 1..Len(last'.scanned) :
       last'.scanned[i].node = node =>
         last'.scanned[i].text = IF last'.scanned[i].pass = "sensitive" THEN original ELSE middle
  /\ onePass(original, replacedBy(last'.replaced, node, "sensitive"), middle)
  /\ onePass(middle, replacedBy(last'.replaced, node, "insensitive"), final)

\* C29: pass order. When the startup scan processes the node without a
\* timeout, the node's final text is the case-insensitive matcher applied
\* to the output of the case-sensitive matcher applied to the original
\* text; the second pass scans the first pass's output; within a pass the
\* matches are found left to right on the pass's input and the inserted
\* text is not scanned again.
C29_PassOrder ==
  [][last'.step = "startup" /\ "t1" \in nodesOf(last'.scanned) /\ "t1" \notin last'.warned
     => passOrder("t1", nodeValue["t1"], appliedAfter(sensitiveRegex', nodeValue["t1"]),
                  nodeValue'["t1"])]_vars

\* A case-insensitive rule matched inside text a case-sensitive rule had
\* inserted, and a case-sensitive replacement that contains its own key
\* was left as inserted.
C29_Witness ==
  /\ last.step = "startup"
  /\ "t1" \notin last.warned
  /\ \E made \in Replaced : \E again \in Replaced :
       /\ made.pass = "sensitive"
       /\ again.pass = "insensitive"
       /\ Includes(made.by, made.text)
       /\ ~Includes(made.text, matched(again))
       /\ Includes(made.by, matched(again))

\* A replaced span for which neither lookup of replaceCallback finds a
\* rule: the match is returned unchanged.
fellBack(made) ==
  /\ matched(made) \notin DOMAIN wordMapCache
  /\ toLowerCase(matched(made)) \notin DOMAIN wordMapCacheLower

\* Both matchers and both lookup tables are the compilation of one rule
\* set: the one of the last updateRegexes call, none before it.
oneSnapshot == Compiled = updateRegexes(IF snapshot = None THEN <<>> ELSE snapshot[1])

\* C30: resolver consistency. Whenever a node is processed, both matchers
\* and both lookup tables were built from one and the same rule-set
\* snapshot, and every span matched by either matcher is found by the
\* exact lookup or by the lowercase lookup: the fallback that returns the
\* match unchanged is never taken.
C30_ResolverConsistency ==
  /\ oneSnapshot
  /\ \A made \in Replaced : ~fellBack(made)

\* C30, its first half: the matchers and the tables in use are always the
\* compilation of one rule set.
C30_OneSnapshot == oneSnapshot

-----------------------------------------------------------------------------
(* Properties: compilation, literal matching, errors, termination *)

\* The keys of the rule set w are unique ignoring letter case.
uniqueIgnoringCase(w) ==
  \A i \in 1..Len(w) : \A j \in 1..Len(w) :
    toLowerCase(w[i].word) = toLowerCase(w[j].word) => i = j

\* What the claim says of the compilation of the rule set w.
compilationOf(w) ==
  /\ DOMAIN wordMapCache = {k.word : k \in enabledRules(w)}
  /\ \A k \in enabledRules(w) : wordMapCache[k.word] = k.data
  /\ \A k \in bucket(w, "insensitive") :
       /\ toLowerCase(k.word) \in DOMAIN wordMapCacheLower
       /\ wordMapCacheLower[toLowerCase(k.word)] = k.data
  /\ DOMAIN wordMapCacheLower = {toLowerCase(k.word) : k \in bucket(w, "insensitive")}
  /\ alternativesOf(sensitiveRegex) = {fragmentOf(k.word) : k \in bucket(w, "sensitive")}
  /\ alternativesOf(insensitiveRegex) = {fragmentOf(k.word) : k \in bucket(w, "insensitive")}
  /\ \A k \in enabledRules(w) :
       (fragmentOf(k.word) \in alternativesOf(sensitiveRegex))
         # (fragmentOf(k.word) \in alternativesOf(insensitiveRegex))
  /\ (sensitiveRegex = None) <=> (bucket(w, "sensitive") = {})
  /\ (insensitiveRegex = None) <=> (bucket(w, "insensitive") = {})

\* C31: compilation result. After a rule set is compiled, the exact table
\* maps just the keys of the enabled rules to their data; the lowercase
\* table holds, at the lowercased key of each enabled case-insensitive
\* rule, that rule's data, and nothing from a case-sensitive or disabled
\* rule; every enabled rule is in exactly one bucket; a matcher is absent
\* if and only if its bucket is empty.
C31_CompilationResult == snapshot # None => compilationOf(snapshot[1])

\* C31 on the rule sets whose keys are unique ignoring letter case.
C31_CompilationUniqueKeys ==
  snapshot # None /\ uniqueIgnoringCase(snapshot[1]) => compilationOf(snapshot[1])

\* The characters an alternative of a compiled matcher spells, when all it
\* has is characters and word boundaries.
spelled(alternative) ==
  LET isChar(term) == term.t = "char"
      characters == SelectSeq(alternative, isChar)
  IN [i \in 1..Len(characters) |-> characters[i].c]

literal(alternative) ==
  \A i \in 1..Len(alternative) : alternative[i].t \in {"char", "boundary"}

\* Every key of the pass's bucket is one alternative of the matcher that
\* spells the key, and the matcher has no other alternative.
compiledLiterally(regex, w, pass) ==
  /\ (regex = None) <=> (bucket(w, pass) = {})
  /\ \A alternative \in alternativesOf(regex) :
       literal(alternative) /\ \E k \in bucket(w, pass) : spelled(alternative) = k.word
  /\ \A k \in bucket(w, pass) : \E alternative \in alternativesOf(regex) : spelled(alternative) = k.word

raising == {n \in TextNodes : parentNode[n] = Null
                              /\ \E i \in 1..Len(last'.processed) : last'.processed[i] = n}

\* C33: unexpected errors surface. An error raised while a node is
\* processed that is not the timeout signal is raised out of the handler
\* (not swallowed), the node's text is not written, and the damage is
\* confined to the one handler invocation: the switch and the compiled
\* state stay as they were, the observer stays attached and the batch is
\* consumed, so that later events are handled as usual.
C33_UnexpectedErrorsSurface ==
  [][last'.step = "observer" /\ raising # {}
     => /\ last'.threw
        /\ \A n \in raising : nodeValue'[n] = nodeValue[n] /\ n \notin last'.written /\ n \notin last'.warned
        /\ last'.processed[Len(last'.processed)] \in raising
        /\ Engine' = Engine
        /\ observing' = observing /\ loaded' = loaded
        /\ mutations' = <<>>]_vars

\* The observer's callback has thrown on a node without parent after it
\* had written another node of the batch.
C33_Witness ==
  /\ last.step = "observer"
  /\ last.threw
  /\ last.written # {}
  /\ observing

\* The number of scans the last handler made, and of processNode calls it
\* made on a node.
scansMade ==
  Cardinality({i \in 1..Len(last.calls) : last.calls[i][1] \in {"processDocument", "processElement"}})

timesProcessed(n) == Cardinality({i \in 1..Len(last.processed) : last.processed[i] = n})

\* Nothing is pending: the store read has been answered, no notification
\* and no mutation record is queued.
quiescent == loaded /\ changeQueue = <<>> /\ mutations = <<>>

\* C34: scans terminate and do not feed themselves. A scan processes each
\* text node at most once; a handler of the engine queues no mutation
\* record and no notification, whatever it writes; and once the external
\* events (load, notifications, page mutations) have stopped, the engine
\* comes to rest with nothing pending.
C34_ScansTerminate ==
  /\ [](\A n \in TextNodes : timesProcessed(n) <= scansMade)
  /\ [][last'.step \in {"startup", "onChanged", "observer"}
        => /\ mutations' = IF last'.step = "observer" THEN <<>> ELSE mutations
           /\ Len(changeQueue') <= Len(changeQueue)
           /\ storeWordMap' = storeWordMap /\ storeEnabled' = storeEnabled]_vars
  /\ <>[]quiescent

\* The observer's callback has written a text node and nothing is pending.
C34_Witness ==
  /\ last.step = "observer"
  /\ last.written # {}
  /\ quiescent

\* The replacement of a span comes from a rule of the pass's bucket whose
\* key is the span (ignoring letter case in the case-insensitive pass).
fromOwnRule(w, made) ==
  \E k \in bucket(w, made.pass) :
    /\ sameIn(made.pass, matched(made), k.word)
    /\ made.by = k.data.replacement

\* C35: the replacement chosen for a match comes from the rule whose
\* matcher produced it. A span replaced in the case-insensitive pass gets
\* the replacement of an enabled case-insensitive rule whose key equals
\* the span ignoring letter case, never that of a case-sensitive rule; a
\* span replaced in the case-sensitive pass gets the replacement of the
\* enabled case-sensitive rule whose key is the span.
C35_ReplacementFromOwnRule ==
  snapshot # None => \A made \in Replaced : fromOwnRule(snapshot[1], made)

\* C35 on the rule sets whose keys are unique ignoring letter case.
C35_OwnRuleUniqueKeys ==
  snapshot # None /\ uniqueIgnoringCase(snapshot[1])
    => \A made \in Replaced : fromOwnRule(snapshot[1], made)

\* C36: the added nodes of one batch are scanned independently. With the
\* switch on and a matcher compiled, the observer's callback raises no
\* error, also when an added node is no longer attached when it runs, and
\* every added node of the batch gets its subtree scan.
C36_AddedNodesIndependent ==
  [][observes /\ truthy(extensionEnabled) /\ hasMatcher(Engine)
     => /\ ~last'.threw
        /\ last'.calls = scansOf(addedNodesOf(mutations))]_vars

\* C36 on the batches of which every added text node still has a parent
\* when the callback runs.
C36_AttachedNodesIndependent ==
  [][/\ observes /\ truthy(extensionEnabled) /\ hasMatcher(Engine)
     /\ \A i \in 1..Len(addedNodesOf(mutations)) :
          addedNodesOf(mutations)[i] \in TextNodes => parentNode[addedNodesOf(mutations)[i]] # Null
     => /\ ~last'.threw
        /\ last'.calls = scansOf(addedNodesOf(mutations))]_vars

\* The switch a startup computes from the store: data.extensionEnabled !== false.
freshSwitch == storeEnabled # Some(FALSE)

\* C37: the master switch is history-independent. After the load, when no
\* change notification is pending, the engine's switch is what a fresh
\* startup would compute from the store as it is: on unless the stored
\* value is exactly false, also after a notification whose new value is
\* absent because the key was removed from the store.
C37_SwitchHistoryIndependent ==
  loaded /\ changeQueue = <<>> => (truthy(extensionEnabled) <=> freshSwitch)

\* C37 while the store holds a value for the switch.
C37_SwitchOfStoredValue ==
  loaded /\ changeQueue = <<>> /\ storeEnabled # None => (truthy(extensionEnabled) <=> freshSwitch)
\* The operation whose write a step carries out.
answered == reads # <<>> /\ reads' = Tail(reads)

\* C38: operations of the settings page that overlap all take effect. A
\* write that is done leaves the store with what the operation makes of the
\* rule set the store held just before the write, so that no write made
\* between the operation's read and its own write is lost.
C38_NoLostUpdate ==
  [][answered /\ request'.outcome = "saved"
       /\ resultOf([Head(reads) EXCEPT !.data = storeWordMap]).outcome = "save"
     => storeWordMap' = Some(resultOf([Head(reads) EXCEPT !.data = storeWordMap]).wordMap)]_vars

\* C39: keys are unique ignoring letter case. In a run that starts from an
\* empty store the store never holds two rules whose keys are equal when
\* letter case is ignored.
C39_KeysUniqueIgnoringCase == uniqueIgnoringCase(storeMap)

====
